---- MODULE Spec2Model ----
(***************************************************************************)
(* QuickSSRF backend: the multi-server Interactsh manager (InteractshStore *)
(* in packages/backend/src/stores/interactsh.ts) and the per-server        *)
(* protocol client (createInteractshClient in                              *)
(* packages/backend/src/services/interactsh.ts).                           *)
(*                                                                         *)
(* One step of the model is one run of JavaScript between two network      *)
(* suspension points: an API call up to its first HTTP request, or the     *)
(* continuation that runs when an HTTP response (or a timer) arrives.      *)
(* Strings the code compares by prefix are sequences of characters.        *)
(***************************************************************************)
EXTENDS Integers, Sequences, FiniteSets, TLC

\* ------------------------------------------------------------------ bounds
\* Client objects created in one run (calls of createInteractshClient).
MaxClients == 2
\* Entries of the URL registry.
MaxUrls == 2
\* Entries of the interaction log.
MaxLog == 1
\* Items of one /poll response.
MaxBatch == 1
\* Polling loops of one client that run at the same time.
MaxLoops == 2
\* the longest log and the highest interactionCounter of the runs on the
\* persisted data
MaxStoreLog == 2
MaxCounter == 3
\* The longest plaintext of an encrypted item, in bytes.
MaxMsg == 4
\* The longest data array of a /poll answer whose items are decrypted.
MaxItems == 3

\* The longest string asked of generateRandomString in the runs on it.
MaxStringLength == 2

\* The milliseconds the clock can pass in the runs that follow the uniqueIds.
MaxTime == 1

\* ------------------------------------------------------------------ values
\* The alphabet generateRandomString draws from, cut to two characters.
Chars == {"a", "b"}

\* The keypairs generateRSAKeyPair can return, by their moduli.
RSAKeys == {1, 2}

\* Server URLs the host passes in, as the parts parseUrl's regexes split.
Servers ==
  { [protocol |-> "https://", host |-> "oast.site", path |-> ""],
    [protocol |-> "",         host |-> "oast.fun",  path |-> "/x"] }

NoServer == [protocol |-> "", host |-> "", path |-> ""]

\* tag?: string, "" standing for undefined.
Tags == {"", "t"}

\* InteractshStartOptions the host passes to start: polling every 5 s, ids of
\* one character and nonces of one character.
StartOptions ==
  { [token |-> "", pollingInterval |-> 5000, correlationIdLength |-> 1,
     correlationIdNonceLength |-> 1] }

NoOptions ==
  [token |-> "", pollingInterval |-> 0, correlationIdLength |-> 0,
   correlationIdNonceLength |-> 0]

ClientIds == 1..MaxClients

\* generateRandomString(length): any string of that length over the alphabet.
generateRandomString(length) == [1..length -> Chars]

\* String.prototype.startsWith
startsWith(s, p) ==
  /\ Len(p) <= Len(s)
  /\ \A i \in 1..Len(p) : s[i] = p[i]

\* parseUrl: the protocol defaults to https://, the host ends at the first "/".
parseUrl(u) ==
  [ host   |-> u.host,
    origin |-> <<(IF u.protocol = "" THEN "https://" ELSE u.protocol), u.host>> ]

\* buildUrl(base, path)
buildUrl(base, path) == <<parseUrl(base).origin, path>>

\* ------------------------------------------------------------------ state
VARIABLES
  \* InteractshStore
  isStarted,          \* private isStarted
  currentOptions,     \* private currentOptions (NoOptions is undefined)
  clients,            \* Map<string, ServerClient>, in insertion order
  interactions,       \* Interaction[]
  activeUrls,         \* ActiveUrl[]
  interactionCounter,
  now,                \* Date.now(), in milliseconds since the process started
  issued,             \* the uniqueIds parseInteraction has made in this process
  filter,             \* private filter
  persisted,          \* the content of data.json
  writable,           \* whether fs.writeFileSync on data.json succeeds
  \* the crypto module and the database of SessionStore
  keyPair,            \* let keyPair of services/crypto, by its modulus
  rsaKeys,            \* the row of table rsa_keys, by its modulus (0: no row)
  sessions,           \* the rows of table client_sessions
  \* the servers
  moduli,             \* the moduli of the public keys received in /register
  wire,               \* the encrypted item of a /poll answer and what came of it
  \* the client objects made by createInteractshClient, by identity
  client,
  created,            \* how many there are
  \* suspended calls
  calls,              \* calls awaiting /register, by client
  initialized,        \* initializeClients in flight: its argument, its running count
  stopCall,           \* InteractshStore.stop awaiting /deregister
  pollCall,           \* InteractshStore.poll awaiting /poll
  \* what the last step returned, threw and sent to the host
  out

vars ==
  << isStarted, currentOptions, clients, interactions, activeUrls,
     interactionCounter, now, issued, filter, persisted, writable, keyPair, rsaKeys,
     sessions, moduli, wire, client, created, calls, initialized, stopCall, pollCall,
     out >>

storeVars == << isStarted, currentOptions, clients >>
dataVars == << interactions, activeUrls, interactionCounter, now, issued, persisted >>
fileVars == << filter, writable >>
sessionVars == << keyPair, rsaKeys, sessions, wire >>
hostVars == << fileVars, sessionVars, moduli >>
clientVars == << client, created >>

\* ------------------------------------------------------------------ client
\* The closure state of createInteractshClient. "Free" marks an identity that
\* no live object uses.
\* No uniqueId made yet: the ones made once or more, and the ones made more
\* than once. This history is kept in the runs that follow the uniqueIds
\* (followed) and left empty in the others.
NoIds == [ids |-> {}, again |-> {}, followed |-> FALSE]

InitClient ==
  [ state            |-> "Free",
    correlationID    |-> << >>,     \* << >> is undefined
    secretKey        |-> << >>,     \* << >> is undefined
    token            |-> "",        \* "" is undefined
    serverURLString  |-> NoServer,  \* NoServer is undefined
    quitPollingFlag  |-> FALSE,
    sessionExpiredCallback |-> FALSE, \* whether one is set
    pollingInterval  |-> 5000,
    nonceLength      |-> 13,
    loopsInFlight    |-> 0,         \* pollingLoop tasks awaiting GET /poll
    loopsSleeping    |-> 0 ]        \* pollingLoop tasks awaiting the timer

\* createInteractshClient: a fresh object starts Idle.
createInteractshClient == [InitClient EXCEPT !.state = "Idle"]

\* x || d on a number
OrDefault(x, d) == IF x = 0 THEN d ELSE x

\* getInteractions' first check: correlationID, secretKey and serverURLString set.
HasConfiguration(cl) ==
  cl.correlationID # << >> /\ cl.secretKey # << >> /\ cl.serverURLString # NoServer

\* initialize as it would be if the polling loop were started before the
\* POST /register is answered.
initializePolling(cl, options, cid) ==
  [ cl EXCEPT
      !.token = options.token,
      !.correlationID = cid,
      !.secretKey = cid,
      !.serverURLString = options.serverURL,
      !.nonceLength = OrDefault(options.correlationIdNonceLength, 13),
      !.sessionExpiredCallback = IF options.onSessionExpired THEN TRUE ELSE @,
      !.state = "Polling",
      !.loopsInFlight = @ + 1 ]

\* initialize, new session, up to the await of performRegistration: the
\* credentials are drawn and the POST /register is on its way. The two calls
\* of generateRandomString return the same string cid (the two lengths are
\* equal in all the options of the runs).
initialize(cl, options, cid) ==
  [ cl EXCEPT
      !.token = options.token,
      !.correlationID = cid,
      !.secretKey = cid,
      !.serverURLString = options.serverURL,
      !.nonceLength = OrDefault(options.correlationIdNonceLength, 13),
      !.sessionExpiredCallback = IF options.onSessionExpired THEN TRUE ELSE @ ]

\* The GET /poll getInteractions sends for a client: its URL and its
\* Authorization header.
PollRequest(cl) ==
  [ url |-> buildUrl(cl.serverURLString,
                     <<"/poll?id=", cl.correlationID, "&secret=", cl.secretKey>>),
    Authorization |-> cl.token ]

\* The POST /deregister close sends for a client: its URL, its body and its
\* Authorization header.
DeregisterRequest(cl) ==
  [ url  |-> buildUrl(cl.serverURLString, <<"/deregister">>),
    body |-> [correlationID |-> cl.correlationID, secretKey |-> cl.secretKey],
    Authorization |-> cl.token ]

\* pollingLoop as it would be with while (true): the flag is not looked at.
pollingLoopForever(cl) ==
  IF HasConfiguration(cl)
    THEN [cl EXCEPT !.loopsInFlight = @ + 1]
    ELSE [cl EXCEPT !.loopsSleeping = @ + 1]

\* pollingLoop from its loop test to its next await: it ends when the flag is
\* set, else getInteractions sends GET /poll (or throws at once, and the loop
\* sleeps).
pollingLoop(cl) ==
  IF cl.quitPollingFlag THEN cl
  ELSE IF HasConfiguration(cl)
    THEN [cl EXCEPT !.loopsInFlight = @ + 1]
    ELSE [cl EXCEPT !.loopsSleeping = @ + 1]

\* startPolling (the caller has checked that the state is not Polling).
startPolling(cl) ==
  pollingLoop([cl EXCEPT !.quitPollingFlag = FALSE, !.state = "Polling"])

\* initialize as it would be if a resumed session drew its credentials like
\* a new one.
initializeResumedFresh(cl, options) ==
  LET set == [ cl EXCEPT
                 !.token = "",
                 !.correlationID = <<"a">>,
                 !.secretKey = <<"a">>,
                 !.serverURLString = options.serverURL,
                 !.pollingInterval = OrDefault(options.keepAliveInterval, @) ]
  IN  IF options.keepAliveInterval = 0 THEN [cl |-> set, err |-> ""]
      ELSE IF set.state = "Polling" THEN [cl |-> set, err |-> "Client is already polling"]
      ELSE [cl |-> startPolling(set), err |-> ""]

\* initialize with options.sessionInfo, which has no await: the credentials
\* are those of sessionInfo, performRegistration is not called, and with a
\* keepAliveInterval startPolling is called, which throws if the client is
\* Polling already. The client after it and the error thrown.
initializeResumed(cl, options) ==
  LET sessionInfo == options.sessionInfo
      set == [ cl EXCEPT
                 !.correlationID = sessionInfo.correlationID,
                 !.secretKey = sessionInfo.secretKey,
                 !.token = sessionInfo.token,
                 !.serverURLString = sessionInfo.serverURL,
                 !.nonceLength = OrDefault(options.correlationIdNonceLength, 13),
                 !.sessionExpiredCallback = IF options.onSessionExpired THEN TRUE ELSE @,
                 !.pollingInterval = OrDefault(options.keepAliveInterval, @) ]
  IN  IF options.keepAliveInterval = 0 THEN [cl |-> set, err |-> ""]
      ELSE IF set.state = "Polling" THEN [cl |-> set, err |-> "Client is already polling"]
      ELSE [cl |-> startPolling(set), err |-> ""]

\* performRegistration as it would be if the secret of the client were one
\* variable of the module, which the last registration leaves at "a".
RegisteredSharedSecret(cl, keepAliveInterval) ==
  LET idle == [cl EXCEPT !.state = "Idle", !.secretKey = <<"a">>]
  IN  IF keepAliveInterval # 0
        THEN pollingLoop([idle EXCEPT !.pollingInterval = keepAliveInterval,
                                      !.quitPollingFlag = FALSE, !.state = "Polling"])
        ELSE idle

\* performRegistration on HTTP 200, and the rest of initialize after it.
Registered(cl, keepAliveInterval) ==
  LET idle == [cl EXCEPT !.state = "Idle"]
  IN  IF keepAliveInterval # 0
        THEN startPolling([idle EXCEPT !.pollingInterval = keepAliveInterval])
        ELSE idle

\* stopPolling (the caller has checked that the state is Polling).
stopPolling(cl) == [cl EXCEPT !.quitPollingFlag = TRUE, !.state = "Idle"]

\* client.poll without its check of the state.
PollSendsInAnyState(cl) == HasConfiguration(cl)

\* client.poll: whether it gets as far as sending GET /poll.
PollSends(cl) == cl.state = "Polling" /\ HasConfiguration(cl)

\* client.poll's error when it sends nothing.
PollRejection(cl) ==
  IF cl.state # "Polling" THEN "Client is not polling"
  ELSE "Missing required client configuration"

\* getInteractions' error for an answer that is not a 200: SESSION_EXPIRED is
\* rethrown as it is, every other error as "Error polling interactions".
GetInteractionsError(status) ==
  IF status = 400 THEN "SESSION_EXPIRED" ELSE "Error polling interactions"

\* close's error when it sends nothing.
CloseRejection(cl) ==
  IF cl.state = "Polling" THEN "Client should stop polling before closing"
  ELSE IF cl.state = "Closed" THEN "Client is already closed"
  ELSE "Server URL is not defined"

\* close: whether it gets as far as sending POST /deregister.
CloseSends(cl) ==
  /\ cl.state # "Polling"
  /\ cl.state # "Closed"
  /\ cl.serverURLString # NoServer

\* close as it would be with the state set whatever the answer.
CloseResponseAlwaysClosed(cl, status) == [cl EXCEPT !.state = "Closed"]

\* close after the response: Closed on HTTP 200 only.
CloseResponse(cl, status) ==
  IF status = 200 THEN [cl EXCEPT !.state = "Closed"] ELSE cl

\* client.stop up to its await: stopPolling when Polling, then close's checks.
ClientStop(cl) ==
  LET idle == IF cl.state = "Polling" THEN stopPolling(cl) ELSE cl
  IN  [cl |-> idle, sends |-> CloseSends(idle)]

\* setRefreshTimeSecond with seconds in range: a client that is Polling stops
\* and starts polling again, which launches a polling loop.
setRefreshTimeSecond(cl, seconds) ==
  LET set == [cl EXCEPT !.pollingInterval = seconds * 1000]
  IN  IF set.state = "Polling" THEN startPolling(stopPolling(set)) ELSE set

\* client.generateUrl with randomId drawn by generateRandomString.
ClientGenerateUrl(cl, randomId) ==
  IF cl.state = "Closed" \/ cl.correlationID = << >> \/ cl.serverURLString = NoServer
    THEN [url |-> << >>, uniqueId |-> << >>]
    ELSE [ url      |-> <<"https://", cl.correlationID \o randomId, ".",
                          parseUrl(cl.serverURLString).host>>,
           uniqueId |-> cl.correlationID \o randomId ]

\* randomId is a string generateRandomString(correlationIdNonceLength) can
\* return for this client.
IsNonce(cl, randomId) == randomId \in generateRandomString(cl.nonceLength)

\* ------------------------------------------------------------------ output
\* What one step shows to its caller and to the host: the events sent to the
\* host, the error thrown to the caller, the value returned (-1: none, 0/1:
\* false/true, or a count), and the errors written to the console.
Quiet ==
  [ events |-> << >>, err |-> "", ret |-> -1, logged |-> {}, expired |-> << >>,
    delivered |-> << >> ]   \* the arguments of the calls of the interaction callback

\* ------------------------------------------------------------------ store
\* savePersistedData: the persisted fields as they are in memory.
PersistData(ints, urls, counter) ==
  [interactions |-> ints, activeUrls |-> urls, interactionCounter |-> counter,
   filter |-> filter]

\* savePersistedData: data.json after fs.writeFileSync(data), which either
\* writes the file or throws into the catch and leaves it as it was.
writeFileSync(data) == IF writable THEN data ELSE persisted

\* savePersistedData(notify): emitDataChanged follows the write inside the try.
emitDataChanged(notify) == IF notify /\ writable THEN <<"DataChanged">> ELSE << >>

\* savePersistedData: what its catch writes to the console.
SaveError == IF writable THEN {} ELSE {"Failed to save persisted data"}

\* Map.has / Map.get
MapHas(m, s) == \E i \in 1..Len(m) : m[i].serverUrl = s
MapGet(m, s) == m[CHOOSE i \in 1..Len(m) : m[i].serverUrl = s].client

\* Map.set: a known key keeps its place, a new key goes last.
MapSet(m, s, c) ==
  IF MapHas(m, s)
    THEN [i \in 1..Len(m) |->
            IF m[i].serverUrl = s THEN [serverUrl |-> s, client |-> c] ELSE m[i]]
    ELSE Append(m, [serverUrl |-> s, client |-> c])

\* The client objects something still refers to: the map, a suspended call, a
\* live polling loop. The others are garbage; nothing can observe them.
Referenced(cf, m, cs, sc, pc) ==
  { c \in ClientIds :
      \/ \E i \in 1..Len(m) : m[i].client = c
      \/ cs[c].kind # "none"
      \/ cf[c].loopsInFlight + cf[c].loopsSleeping > 0
      \/ sc.active /\ sc.client = c
      \/ pc.active /\ pc.client = c }

Collect(cf, m, cs, sc, pc) ==
  [c \in ClientIds |->
     IF c \in Referenced(cf, m, cs, sc, pc) THEN cf[c] ELSE InitClient]

\* Identities are given out in order of creation; n objects exist so far.
CanCreate(n) == n < MaxClients
NewId(n) == n + 1

NoCall == [kind |-> "none", tag |-> "", keepAliveInterval |-> 0]
\* Nothing has been sent for decryption.
NoWire ==
  [ stage |-> "none", m |-> << >>, k |-> << >>, iv |-> << >>,
    aes_key |-> << >>, data |-> << >>, ret |-> [err |-> "", text |-> << >>] ]
\* no initializeClients in flight
NoBatch == [serverUrls |-> << >>, count |-> 0]
NoStop == [active |-> FALSE, idx |-> 0, client |-> 0]
NoPoll == [active |-> FALSE, idx |-> 0, client |-> 0, notify |-> FALSE, countBefore |-> 0]

InitStore ==
  /\ isStarted = FALSE
  /\ currentOptions = NoOptions
  /\ clients = << >>
  /\ interactions = << >>
  /\ activeUrls = << >>
  /\ interactionCounter = 0
  /\ now = 0
  /\ issued = NoIds
  /\ filter = ""
  /\ writable = TRUE
  /\ persisted = PersistData(<< >>, << >>, 0)
  /\ client = [c \in ClientIds |-> InitClient]
  /\ created = 0
  /\ calls = [c \in ClientIds |-> NoCall]
  /\ initialized = NoBatch
  /\ stopCall = NoStop
  /\ pollCall = NoPoll
  /\ out = Quiet
  \* init has called initializeRSAKeys: generateRSAKeyPair returned some key,
  \* which is given the modulus 1
  /\ keyPair = 1
  /\ sessions = {}
  /\ wire = NoWire
  /\ moduli = {}

\* The plugin is loaded for the first time: its database holds nothing.
Init == InitStore /\ rsaKeys = 0

\* The plugin is loaded with a database that holds no keypair, or the keypair
\* an earlier run left in table rsa_keys.
InitKeys == InitStore /\ rsaKeys \in {0} \cup RSAKeys

\* InteractshStore.start
Start(options) ==
  /\ IF isStarted
       THEN UNCHANGED << isStarted, currentOptions, interactions >>
       ELSE /\ currentOptions' = options
            /\ interactions' = << >>
            /\ isStarted' = TRUE
  /\ out' = [Quiet EXCEPT !.ret = 1]
  /\ UNCHANGED << clients, activeUrls, interactionCounter, now, issued, persisted, hostVars,
                  clientVars, calls, initialized, stopCall, pollCall >>

\* ------------------------------------------------------------------ ingestion
\* What a server can put into one item of a /poll response: something that
\* fails to decrypt or parse, or an interaction with some full-id: none at all,
\* or a unique id of a client with correlation id "a", alone or followed by
\* the suffix the server adds.
FullIds ==
  { << >>, <<"a", "a">>, <<"a", "a", "a">>, <<"a", "b">> }

Items ==
  {[bad |-> TRUE, fullId |-> << >>]} \cup {[bad |-> FALSE, fullId |-> f] : f \in FullIds}

Batches == UNION { [1..n -> Items] : n \in 0..MaxBatch }

\* What the server can answer to GET /poll: 200 with a batch, 401, 400, another
\* status, or no answer at all (status 0: timeout, transport error).
PollResponses ==
  { [status |-> 200, data |-> b] : b \in Batches } \cup
  { [status |-> s, data |-> << >>] : s \in {400, 401, 500, 0} }

\* The search as findLast would make it: the index of the last match.
FindLastMatchingUrl(urls, fullId) ==
  LET hits == { j \in 1..Len(urls) :
                  startsWith(fullId, urls[j].uniqueId) \/ urls[j].uniqueId = fullId }
  IN  IF hits = {} THEN 0 ELSE CHOOSE j \in hits : \A k \in hits : j >= k

\* activeUrls.find((u) => fullId.startsWith(u.uniqueId) || u.uniqueId === fullId):
\* the index of the first match, 0 when there is none.
FindMatchingUrl(urls, fullId) ==
  LET hits == { j \in 1..Len(urls) :
                  startsWith(fullId, urls[j].uniqueId) \/ urls[j].uniqueId = fullId }
  IN  IF hits = {} THEN 0 ELSE CHOOSE j \in hits : \A k \in hits : j <= k

\* The callback's test without its second half: any URL found will do.
AcceptsDisabled(urls, fullId) == FindMatchingUrl(urls, fullId) # 0

\* The interaction is added only if the URL is found and is active.
Accepts(urls, fullId) ==
  LET j == FindMatchingUrl(urls, fullId)
  IN  j # 0 /\ urls[j].isActive

\* parseInteraction as it would be with the clock alone in the uniqueId:
\* interactions parsed in the same millisecond get the same one.
parseInteractionNoCounter(counter, fullId, tag, serverUrl) ==
  [ uniqueId  |-> 1,
    fullId    |-> fullId,
    tag       |-> tag,
    serverUrl |-> serverUrl ]

\* parseInteraction: the counter is incremented and names the interaction.
parseInteraction(counter, fullId, tag, serverUrl) ==
  [ uniqueId  |-> counter + 1,
    fullId    |-> fullId,
    tag       |-> tag,
    serverUrl |-> serverUrl ]

\* `int_${Date.now()}_${this.interactionCounter}` is made once more: id is
\* its two numbers. The log keeps the second of them as the uniqueId.
Issue(made, id) ==
  IF ~made.followed THEN made
  ELSE [ made EXCEPT
           !.ids   = @ \cup {id},
           !.again = IF id \in made.ids THEN @ \cup {id} ELSE @ ]

\* The store's data as the callback sees and changes it, and what it writes
\* to the console.
StoreData == [ interactions       |-> interactions,
               interactionCounter |-> interactionCounter,
               issued             |-> issued,
               persisted          |-> persisted,
               logged             |-> {} ]

\* The callback as it would be with parseInteraction called before the test:
\* a dropped interaction takes a number too.
OnInteractionCounting(d, urls, fullId) ==
  IF Accepts(urls, fullId)
    THEN LET u      == urls[FindMatchingUrl(urls, fullId)]
             parsed == parseInteraction(d.interactionCounter, fullId, u.tag, u.serverUrl)
             ints   == Append(d.interactions, parsed)
         IN  [d EXCEPT !.interactions = ints,
                       !.interactionCounter = @ + 1,
                       !.issued = Issue(@, <<now, d.interactionCounter + 1>>),
                       !.persisted = IF writable
                         THEN PersistData(ints, urls, d.interactionCounter + 1)
                         ELSE @,
                       !.logged = @ \cup SaveError]
    ELSE [d EXCEPT !.interactionCounter = @ + 1,
                   !.issued = Issue(@, <<now, d.interactionCounter + 1>>),
                   !.logged = @ \cup {"Interaction ignored"}]

\* The interaction callback of getOrCreateClient on one interaction.
OnInteraction(d, urls, fullId) ==
  IF Accepts(urls, fullId)
    THEN LET u      == urls[FindMatchingUrl(urls, fullId)]
             parsed == parseInteraction(d.interactionCounter, fullId, u.tag, u.serverUrl)
             ints   == Append(d.interactions, parsed)
         IN  [d EXCEPT !.interactions = ints,
                       !.interactionCounter = @ + 1,
                       !.issued = Issue(@, <<now, d.interactionCounter + 1>>),
                       \* savePersistedData(false): saved, no event
                       !.persisted = IF writable
                         THEN PersistData(ints, urls, d.interactionCounter + 1)
                         ELSE @,
                       !.logged = @ \cup SaveError]
    ELSE IF FindMatchingUrl(urls, fullId) # 0
      THEN [d EXCEPT !.logged = @ \cup {"Interaction ignored (URL disabled)"}]
      ELSE [d EXCEPT !.logged = @ \cup {"Interaction ignored (URL not tracked)"}]

\* getInteractions' loop over data: an item that fails to decrypt or parse is
\* logged and skipped, the others go to the callback in order.
RECURSIVE Deliver(_, _, _)
Deliver(d, urls, batch) ==
  IF batch = << >> THEN d
  ELSE Deliver((IF Head(batch).bad
                  THEN [d EXCEPT !.logged = @ \cup {"Failed to decrypt/parse interaction"}]
                  ELSE OnInteraction(d, urls, Head(batch).fullId)),
               urls, Tail(batch))

\* getInteractions after the response: the store's data once the batch of a
\* 200 has gone through the callback; any other answer delivers nothing.
Ingest(resp) ==
  IF resp.status = 200 THEN Deliver(StoreData, activeUrls, resp.data) ELSE StoreData

\* ------------------------------------------------------------------ generateUrl
\* getOrCreateClient calls suspended in /register on behalf of generateUrl.
PendingGen == Cardinality({c \in ClientIds : calls[c].kind = "gen"})

\* generateUrl after getOrCreateClient: the URL is minted and tracked.
TrackUrl(cl, randomId, serverUrl, tag) ==
  LET result == ClientGenerateUrl(cl, randomId)
  IN  Append(activeUrls,
             [ url       |-> result.url,
               uniqueId  |-> result.uniqueId,
               isActive  |-> TRUE,
               serverUrl |-> serverUrl,
               tag       |-> tag ])

\* The options getOrCreateClient hands to client.start.
ClientOptions(serverUrl) ==
  [ serverURL                |-> serverUrl,
    token                    |-> currentOptions.token,
    keepAliveInterval        |-> currentOptions.pollingInterval,
    correlationIdLength      |-> currentOptions.correlationIdLength,
    correlationIdNonceLength |-> currentOptions.correlationIdNonceLength,
    onSessionExpired         |-> FALSE ]

\* cid is a string generateRandomString(correlationIdLength || 20) can return.
IsCorrelationId(options, cid) ==
  cid \in generateRandomString(OrDefault(options.correlationIdLength, 20))

\* InteractshStore.generateUrl up to its first suspension. cid and randomId
\* are the strings generateRandomString returns if it is called.
GenerateUrl(serverUrl, tag, cid, randomId) ==
  /\ Len(activeUrls) + PendingGen < MaxUrls
  /\ UNCHANGED << storeVars, interactions, interactionCounter, now, issued, fileVars,
                  sessionVars, initialized, stopCall, pollCall >>
  /\ IF ~isStarted
       THEN /\ out' = [Quiet EXCEPT !.err = "Interactsh store not started"]
            /\ UNCHANGED << activeUrls, persisted, clientVars, calls, moduli >>
     ELSE IF MapHas(clients, serverUrl)
       THEN LET c    == MapGet(clients, serverUrl)
                urls == TrackUrl(client[c], randomId, serverUrl, tag)
            IN  /\ IsNonce(client[c], randomId)
                /\ activeUrls' = urls
                \* savePersistedData(false), then emitUrlGenerated
                /\ persisted' = writeFileSync(PersistData(interactions, urls, interactionCounter))
                /\ out' = [Quiet EXCEPT !.events = <<"UrlGenerated">>, !.ret = 1,
                                        !.logged = SaveError]
                /\ UNCHANGED << clientVars, calls, moduli >>
     ELSE IF currentOptions = NoOptions
       THEN /\ out' = [Quiet EXCEPT !.err = "Store not initialized"]
            /\ UNCHANGED << activeUrls, persisted, clientVars, calls, moduli >>
     ELSE LET c == NewId(created)
          IN  /\ CanCreate(created)
              /\ IsCorrelationId(ClientOptions(serverUrl), cid)
              /\ created' = created + 1
              /\ client' = [client EXCEPT ![c] = initialize(createInteractshClient, ClientOptions(serverUrl), cid)]
              /\ calls' = [calls EXCEPT ![c] =
                   [kind |-> "gen", tag |-> tag,
                    keepAliveInterval |-> ClientOptions(serverUrl).keepAliveInterval]]
              \* encodePublicKey() goes out in the POST /register
              /\ moduli' = moduli \cup {keyPair}
              /\ out' = Quiet
              /\ UNCHANGED << activeUrls, persisted >>

\* The /register response reaches a suspended getOrCreateClient call: on 200
\* the client is Idle, starts polling and is put into the map, and the caller
\* (generateUrl or initializeClients) goes on; otherwise the call fails.
RegisterResponse(c, status, randomId) ==
  /\ calls[c].kind \in {"gen", "init"}
  /\ calls' = [calls EXCEPT ![c] = NoCall]
  /\ UNCHANGED << created, isStarted, currentOptions, interactions,
                  interactionCounter, now, issued, hostVars, stopCall, pollCall >>
  /\ LET serverUrl == client[c].serverURLString
         lastInit  == \A d \in ClientIds \ {c} : calls[d].kind # "init"
         cf  == IF status = 200
                  THEN [client EXCEPT ![c] = Registered(@, calls[c].keepAliveInterval)]
                  ELSE client
         map == IF status = 200 THEN MapSet(clients, serverUrl, c) ELSE clients
         urls == TrackUrl(cf[c], randomId, serverUrl, calls[c].tag)
         count == IF status = 200 THEN initialized.count + 1 ELSE initialized.count
     IN  /\ clients' = map
         /\ client' = Collect(cf, map, calls', stopCall, pollCall)
         /\ IsNonce(cf[c], randomId)
         /\ IF calls[c].kind = "gen"
              THEN /\ initialized' = initialized
                   /\ IF status = 200
                        THEN /\ activeUrls' = urls
                             /\ persisted' = writeFileSync(
                                  PersistData(interactions, urls, interactionCounter))
                             /\ out' = [Quiet EXCEPT !.events = <<"UrlGenerated">>,
                                                     !.ret = 1,
                                                     !.logged = SaveError]
                        ELSE /\ UNCHANGED << activeUrls, persisted >>
                             /\ out' = [Quiet EXCEPT !.err = "Registration failed, please check your server URL and token"]
              ELSE /\ UNCHANGED << activeUrls, persisted >>
                   \* the last call of the batch: Promise.all resolves, the count is returned
                   /\ initialized' = IF lastInit THEN NoBatch
                                     ELSE [initialized EXCEPT !.count = count]
                   /\ out' = [Quiet EXCEPT
                        !.ret = IF lastInit THEN count ELSE -1,
                        !.logged = IF status = 200 THEN {}
                                   ELSE {"Failed to initialize client"}]

\* ------------------------------------------------------------------ initializeClients
\* The synchronous part of serverUrls.map(...): getOrCreateClient is entered for
\* each URL in turn; a URL in the map counts at once, another gets a client of
\* its own whose /register is sent. cids are the ids generateRandomString
\* returns, one per URL.
RECURSIVE GetOrCreateAll(_, _, _, _)
GetOrCreateAll(acc, serverUrls, cids, i) ==
  IF i > Len(serverUrls) THEN acc
  ELSE IF MapHas(clients, serverUrls[i])
    THEN GetOrCreateAll([acc EXCEPT !.count = @ + 1], serverUrls, cids, i + 1)
  ELSE IF currentOptions = NoOptions \/ ~CanCreate(acc.n)
    THEN GetOrCreateAll(acc, serverUrls, cids, i + 1)
  ELSE LET c == NewId(acc.n)
       IN  GetOrCreateAll(
             [ n     |-> acc.n + 1,
               cf    |-> [acc.cf EXCEPT ![c] =
                            initialize(createInteractshClient,
                                       ClientOptions(serverUrls[i]), cids[i])],
               cs    |-> [acc.cs EXCEPT ![c] =
                            [kind |-> "init", tag |-> "",
                             keepAliveInterval |->
                               ClientOptions(serverUrls[i]).keepAliveInterval]],
               count |-> acc.count ],
             serverUrls, cids, i + 1)

\* InteractshStore.initializeClients up to its suspension in Promise.all.
InitializeClients(serverUrls, cids) ==
  /\ \A c \in ClientIds : calls[c].kind # "init"
  /\ UNCHANGED << storeVars, dataVars, fileVars, sessionVars, stopCall, pollCall >>
  /\ IF ~isStarted
       THEN /\ out' = [Quiet EXCEPT !.err = "Interactsh store not started"]
            /\ UNCHANGED << clientVars, calls, initialized, moduli >>
       ELSE LET r == GetOrCreateAll([n |-> created, cf |-> client, cs |-> calls,
                                     count |-> 0],
                                    serverUrls, cids, 1)
            IN  \* as many identities left as clients to create
                /\ created + Cardinality({i \in 1..Len(serverUrls) :
                                            ~MapHas(clients, serverUrls[i])}) <= MaxClients
                /\ \A i \in 1..Len(cids) :
                     IsCorrelationId(ClientOptions(serverUrls[i]), cids[i])
                /\ created' = r.n
                \* encodePublicKey() goes out in each POST /register
                /\ moduli' = IF r.n > created THEN moduli \cup {keyPair} ELSE moduli
                /\ client' = r.cf
                /\ calls' = r.cs
                \* nothing to wait for: the count is returned at once
                /\ initialized' = IF r.n = created THEN NoBatch
                                  ELSE [serverUrls |-> serverUrls, count |-> r.count]
                /\ out' = [Quiet EXCEPT !.ret = IF r.n = created THEN r.count ELSE -1]

\* ------------------------------------------------------------------ URL registry
FindUrl(uniqueId) ==
  LET hits == {j \in 1..Len(activeUrls) : activeUrls[j].uniqueId = uniqueId}
  IN  IF hits = {} THEN 0 ELSE CHOOSE j \in hits : \A k \in hits : j <= k

\* Array.find on a registry: the first URL with this uniqueId, 0 if there is
\* none.
FindUrlIn(urls, uniqueId) ==
  LET hits == {j \in 1..Len(urls) : urls[j].uniqueId = uniqueId}
  IN  IF hits = {} THEN 0 ELSE CHOOSE j \in hits : \A k \in hits : j <= k

\* setUrlActive as it would be if it switched the flag over instead of
\* setting it.
setUrlActiveToggle(urls, uniqueId, isActive) ==
  LET j == FindUrlIn(urls, uniqueId)
  IN  IF j # 0
        THEN [urls |-> [urls EXCEPT ![j].isActive = ~@], ret |-> 1,
              events |-> emitDataChanged(TRUE), saved |-> TRUE]
        ELSE [urls |-> urls, ret |-> 0, events |-> << >>, saved |-> FALSE]

\* setUrlActive on the registry urls: the registry after the call, what the
\* call returns (1: true, 0: false), the events it sends and whether it saves.
setUrlActive(urls, uniqueId, isActive) ==
  LET j == FindUrlIn(urls, uniqueId)
  IN  IF j # 0
        THEN [urls |-> [urls EXCEPT ![j].isActive = isActive], ret |-> 1,
              events |-> emitDataChanged(TRUE), saved |-> TRUE]
        ELSE [urls |-> urls, ret |-> 0, events |-> << >>, saved |-> FALSE]

\* InteractshStore.setUrlActive
SetUrlActive(uniqueId, isActive) ==
  /\ UNCHANGED << storeVars, interactions, interactionCounter, now, issued, hostVars,
                  clientVars, calls, initialized, stopCall, pollCall >>
  /\ LET r == setUrlActive(activeUrls, uniqueId, isActive)
     IN  /\ activeUrls' = r.urls
         /\ persisted' = IF r.saved
                           THEN writeFileSync(PersistData(interactions, r.urls,
                                                          interactionCounter))
                           ELSE persisted
         /\ out' = [Quiet EXCEPT !.ret = r.ret, !.events = r.events,
                                 !.logged = IF r.saved THEN SaveError ELSE {}]

\* InteractshStore.removeUrl
RemoveUrl(uniqueId) ==
  /\ UNCHANGED << storeVars, interactions, interactionCounter, now, issued, hostVars,
                  clientVars, calls, initialized, stopCall, pollCall >>
  /\ IF FindUrl(uniqueId) # 0
       THEN LET j    == FindUrl(uniqueId)
                urls == SubSeq(activeUrls, 1, j - 1) \o
                        SubSeq(activeUrls, j + 1, Len(activeUrls))
            IN  /\ activeUrls' = urls
                /\ persisted' = writeFileSync(PersistData(interactions, urls, interactionCounter))
                /\ out' = [Quiet EXCEPT !.ret = 1, !.events = emitDataChanged(TRUE),
                                        !.logged = SaveError]
       ELSE /\ UNCHANGED << activeUrls, persisted >>
            /\ out' = [Quiet EXCEPT !.ret = 0]

\* InteractshStore.clearUrls
ClearUrls ==
  /\ activeUrls' = << >>
  /\ persisted' = writeFileSync(PersistData(interactions, << >>, interactionCounter))
  /\ out' = [Quiet EXCEPT !.events = emitDataChanged(TRUE), !.logged = SaveError]
  /\ UNCHANGED << storeVars, interactions, interactionCounter, now, issued, hostVars,
                  clientVars, calls, initialized, stopCall, pollCall >>

\* InteractshStore.clearAllData
ClearAllData ==
  /\ interactions' = << >>
  /\ activeUrls' = << >>
  /\ interactionCounter' = 0
  /\ persisted' = writeFileSync(PersistData(<< >>, << >>, 0))
  /\ UNCHANGED << now, issued >>
  /\ out' = [Quiet EXCEPT !.events = emitDataChanged(TRUE), !.logged = SaveError]
  /\ UNCHANGED << storeVars, hostVars, clientVars, calls, initialized, stopCall,
                  pollCall >>

\* A millisecond passes.
Tick ==
  /\ now < MaxTime
  /\ now' = now + 1
  /\ out' = Quiet
  /\ UNCHANGED << storeVars, interactions, activeUrls, interactionCounter, issued,
                  persisted, hostVars, clientVars, calls, initialized, stopCall,
                  pollCall >>

\* InteractshStore.clearInteractions
ClearInteractions ==
  /\ interactions' = << >>
  /\ persisted' = writeFileSync(PersistData(<< >>, activeUrls, interactionCounter))
  /\ out' = [Quiet EXCEPT !.events = emitDataChanged(TRUE), !.logged = SaveError]
  /\ UNCHANGED << storeVars, activeUrls, interactionCounter, now, issued, hostVars, clientVars,
                  calls, initialized, stopCall, pollCall >>

\* Array.findIndex on the log: the first interaction with this uniqueId, 0 if
\* there is none.
FindInteraction(uniqueId) ==
  IF \E i \in 1..Len(interactions) : interactions[i].uniqueId = uniqueId
    THEN CHOOSE i \in 1..Len(interactions) :
           /\ interactions[i].uniqueId = uniqueId
           /\ \A k \in 1..(i - 1) : interactions[k].uniqueId # uniqueId
    ELSE 0

\* InteractshStore.deleteInteraction
DeleteInteraction(uniqueId) ==
  /\ UNCHANGED << storeVars, activeUrls, interactionCounter, now, issued, hostVars, clientVars,
                  calls, initialized, stopCall, pollCall >>
  /\ IF FindInteraction(uniqueId) # 0
       THEN LET j    == FindInteraction(uniqueId)
                ints == SubSeq(interactions, 1, j - 1) \o
                        SubSeq(interactions, j + 1, Len(interactions))
            IN  /\ interactions' = ints
                /\ persisted' = writeFileSync(PersistData(ints, activeUrls, interactionCounter))
                /\ out' = [Quiet EXCEPT !.ret = 1, !.events = emitDataChanged(TRUE),
                                        !.logged = SaveError]
       ELSE /\ UNCHANGED << interactions, persisted >>
            /\ out' = [Quiet EXCEPT !.ret = 0]

\* Array.filter: the elements of s that satisfy Keep, in order.
RECURSIVE FilterSeq(_, _)
FilterSeq(s, keep) ==
  IF s = << >> THEN << >>
  ELSE (IF Head(s).uniqueId \in keep THEN <<Head(s)>> ELSE << >>) \o
       FilterSeq(Tail(s), keep)

\* InteractshStore.deleteInteractions: the data are saved only if something
\* was deleted; the number deleted is returned.
DeleteInteractions(uniqueIds) ==
  /\ UNCHANGED << storeVars, activeUrls, interactionCounter, now, issued, hostVars, clientVars,
                  calls, initialized, stopCall, pollCall >>
  /\ LET ints == FilterSeq(interactions,
                           {interactions[i].uniqueId : i \in 1..Len(interactions)} \ uniqueIds)
          deletedCount == Len(interactions) - Len(ints)
     IN  /\ interactions' = ints
         /\ IF deletedCount > 0
              THEN /\ persisted' = writeFileSync(PersistData(ints, activeUrls, interactionCounter))
                   /\ out' = [Quiet EXCEPT !.ret = deletedCount,
                                           !.events = emitDataChanged(TRUE),
                                           !.logged = SaveError]
              ELSE /\ UNCHANGED persisted
                   /\ out' = [Quiet EXCEPT !.ret = 0]

\* InteractshStore.setFilter: a filter that differs is set and saved without
\* DataChanged, then FilterChanged is sent, whatever became of the write.
SetFilter(f) ==
  /\ UNCHANGED << storeVars, interactions, activeUrls, interactionCounter, now, issued, writable,
                  sessionVars, moduli, clientVars, calls, initialized, stopCall,
                  pollCall >>
  /\ IF filter # f
       THEN /\ filter' = f
            /\ persisted' = writeFileSync([PersistData(interactions, activeUrls,
                                                      interactionCounter)
                                             EXCEPT !.filter = f])
            /\ out' = [Quiet EXCEPT !.events = <<"FilterChanged">>,
                                    !.logged = SaveError]
       ELSE /\ UNCHANGED << filter, persisted >>
            /\ out' = Quiet

\* The file system starts or stops refusing the writes to data.json.
SetWritable(ok) ==
  /\ writable # ok
  /\ writable' = ok
  /\ out' = Quiet
  /\ UNCHANGED << storeVars, dataVars, filter, sessionVars, moduli, clientVars,
                  calls, initialized, stopCall, pollCall >>

\* The process ends and the plugin is loaded in a new one: init calls
\* initializeRSAKeys, where generateRSAKeyPair returns the key with modulus k,
\* and the store is constructed: loadPersistedData reads the log, the
\* registry, the counter and the filter from data.json; the map is empty,
\* nothing is started, no call, loop or client object of the old process is
\* left. The database is not read.
Restart(k) ==
  /\ keyPair' = k
  /\ interactions' = persisted.interactions
  /\ activeUrls' = persisted.activeUrls
  /\ interactionCounter' = persisted.interactionCounter
  /\ now' = 0
  /\ issued' = [NoIds EXCEPT !.followed = issued.followed]
  /\ filter' = persisted.filter
  /\ isStarted' = FALSE
  /\ currentOptions' = NoOptions
  /\ clients' = << >>
  /\ client' = [c \in ClientIds |-> InitClient]
  /\ created' = 0
  /\ calls' = [c \in ClientIds |-> NoCall]
  /\ initialized' = NoBatch
  /\ stopCall' = NoStop
  /\ pollCall' = NoPoll
  /\ out' = Quiet
  /\ UNCHANGED << persisted, writable, rsaKeys, sessions, moduli, wire >>

\* ------------------------------------------------------------------ polling loop
\* pollingLoop as it would be if every failed poll ended the loop.
LoopAnsweredEndsOnFailure(cl, status) ==
  IF status # 200
    THEN [cl EXCEPT !.loopsInFlight = @ - 1, !.quitPollingFlag = TRUE, !.state = "Idle"]
    ELSE [cl EXCEPT !.loopsInFlight = @ - 1, !.loopsSleeping = @ + 1]

\* pollingLoop as it would be with SESSION_EXPIRED handled like any other
\* failure.
LoopAnsweredSleeps(cl, status) ==
  [cl EXCEPT !.loopsInFlight = @ - 1, !.loopsSleeping = @ + 1]

\* pollingLoop after the answer to its GET /poll: SESSION_EXPIRED (400) ends the
\* loop with the client Idle; after success or any other failure the loop
\* sleeps pollingInterval.
LoopAnswered(cl, status) ==
  IF status = 400
    THEN [cl EXCEPT !.loopsInFlight = @ - 1, !.quitPollingFlag = TRUE, !.state = "Idle"]
    ELSE [cl EXCEPT !.loopsInFlight = @ - 1, !.loopsSleeping = @ + 1]

\* The calls of sessionExpiredCallback the loop makes after the answer: one,
\* with the server URL, on SESSION_EXPIRED if a callback is set (the store
\* sets none).
SessionExpiredCalls(cl, status) ==
  IF status = 400 /\ cl.sessionExpiredCallback /\ cl.serverURLString # NoServer
    THEN <<cl.serverURLString>>
    ELSE << >>

\* A pollingLoop task of client c gets the answer to its GET /poll.
LoopDelivers(c, resp) ==
  /\ client[c].loopsInFlight > 0
  /\ UNCHANGED << storeVars, activeUrls, hostVars, created, calls, initialized,
                  stopCall, pollCall >>
  /\ interactions' = Ingest(resp).interactions
  /\ interactionCounter' = Ingest(resp).interactionCounter
  /\ issued' = Ingest(resp).issued
  /\ now' = now
  /\ persisted' = Ingest(resp).persisted
  /\ client' = Collect([client EXCEPT ![c] = LoopAnswered(@, resp.status)],
                       clients, calls, stopCall, pollCall)
  /\ out' = [Quiet EXCEPT !.logged =
                IF resp.status \in {200, 400} THEN Ingest(resp).logged
                ELSE {"Polling error"},
                           !.expired = SessionExpiredCalls(client[c], resp.status)]

\* LoopDelivers as long as the log holds no more than MaxLog interactions
\* and the counter is no higher than MaxCounter.
LoopResponse(c, resp) ==
  /\ Len(Ingest(resp).interactions) <= MaxLog
  /\ Ingest(resp).interactionCounter <= MaxCounter
  /\ LoopDelivers(c, resp)

\* LoopDelivers as long as the log holds no more than MaxStoreLog interactions
\* and the counter is no higher than MaxCounter.
LoopResponseStore(c, resp) ==
  /\ Len(Ingest(resp).interactions) <= MaxStoreLog
  /\ Ingest(resp).interactionCounter <= MaxCounter
  /\ LoopDelivers(c, resp)

\* The sleep of a pollingLoop task of client c ends: the loop tests the flag
\* and either ends or sends the next GET /poll.
LoopWake(c) ==
  /\ client[c].loopsSleeping > 0
  /\ UNCHANGED << storeVars, dataVars, hostVars, created, calls, initialized, stopCall, pollCall >>
  /\ client' = Collect([client EXCEPT ![c] = pollingLoop([@ EXCEPT !.loopsSleeping = @ - 1])],
                       clients, calls, stopCall, pollCall)
  /\ out' = Quiet

\* ------------------------------------------------------------------ stop
\* The loop of InteractshStore.stop from entry i of the map on: client.stop()
\* is called on each entry until one suspends in /deregister (idx names it) or
\* the entries are exhausted (idx = 0). An entry whose stop() throws at once is
\* logged and passed.
RECURSIVE StopFrom(_, _, _, _)
StopFrom(cf, m, i, logged) ==
  IF i > Len(m) THEN [cf |-> cf, idx |-> 0, logged |-> logged]
  ELSE LET c  == m[i].client
           r  == ClientStop(cf[c])
           cf2 == [cf EXCEPT ![c] = r.cl]
       IN  IF r.sends THEN [cf |-> cf2, idx |-> i, logged |-> logged]
           ELSE StopFrom(cf2, m, i + 1, logged \cup {CloseRejection(r.cl)})

\* stop as it would be without the try/catch around client.stop(): the first
\* failure is thrown to the caller and the map is left as it is.
StopAbortsOnFailure(r) ==
  IF r.logged # {}
    THEN /\ stopCall' = NoStop
         /\ UNCHANGED << storeVars, pollCall >>
         /\ client' = Collect(r.cf, clients, calls, stopCall', pollCall)
         /\ out' = [Quiet EXCEPT !.err = "Failed to stop Interactsh clients"]
    ELSE IF r.idx # 0
    THEN /\ stopCall' = [active |-> TRUE, idx |-> r.idx, client |-> clients[r.idx].client]
         /\ UNCHANGED << storeVars, pollCall >>
         /\ client' = Collect(r.cf, clients, calls, stopCall', pollCall)
         /\ out' = Quiet
    ELSE /\ stopCall' = NoStop
         /\ clients' = << >>
         /\ isStarted' = FALSE
         /\ currentOptions' = NoOptions
         /\ pollCall' = [pollCall EXCEPT !.idx = 0]
         /\ client' = Collect(r.cf, << >>, calls, stopCall', pollCall')
         /\ out' = [Quiet EXCEPT !.ret = 1]

\* stop's loop went on to r: either it is suspended again, or it is over and
\* the map is cleared, the store not started, stop returns true.
StopGoesOn(r) ==
  IF r.idx # 0
    THEN /\ stopCall' = [active |-> TRUE, idx |-> r.idx, client |-> clients[r.idx].client]
         /\ UNCHANGED << storeVars, pollCall >>
         /\ client' = Collect(r.cf, clients, calls, stopCall', pollCall)
         /\ out' = [Quiet EXCEPT !.logged = r.logged]
    ELSE /\ stopCall' = NoStop
         /\ clients' = << >>
         /\ isStarted' = FALSE
         /\ currentOptions' = NoOptions
         \* a poll iterating the map finds only entries set after the clear
         /\ pollCall' = [pollCall EXCEPT !.idx = 0]
         /\ client' = Collect(r.cf, << >>, calls, stopCall', pollCall')
         /\ out' = [Quiet EXCEPT !.ret = 1, !.logged = r.logged]

\* stop as it would be without the isStarted test at its head: the loop over
\* the map runs whether or not the store is started.
StopAlways ==
  /\ ~stopCall.active
  /\ UNCHANGED << dataVars, hostVars, created, calls, initialized >>
  /\ StopGoesOn(StopFrom(client, clients, 1, {}))

\* InteractshStore.stop up to its first suspension.
Stop ==
  /\ ~stopCall.active
  /\ UNCHANGED << dataVars, hostVars, created, calls, initialized >>
  /\ IF ~isStarted
       THEN /\ out' = [Quiet EXCEPT !.ret = 1,
                                    !.logged = {"Interactsh store not started"}]
            /\ UNCHANGED << storeVars, client, stopCall, pollCall >>
       ELSE StopGoesOn(StopFrom(client, clients, 1, {}))

\* The /deregister response reaches the client stop() is suspended on; then
\* stop's loop goes on with the next entry of the map.
DeregisterResponse(status) ==
  /\ stopCall.active
  /\ UNCHANGED << dataVars, hostVars, created, calls, initialized >>
  /\ StopGoesOn(StopFrom([client EXCEPT ![stopCall.client] = CloseResponse(@, status)],
                         clients, stopCall.idx + 1,
                         IF status = 200 THEN {}
                         ELSE {"Could not deregister from server"}))

\* ------------------------------------------------------------------ poll
\* The loop of InteractshStore.poll from entry i of the map on: client.poll() is
\* called on each entry until one suspends in GET /poll (its index is
\* returned) or the entries are exhausted (0). An entry whose poll() throws is
\* logged and passed.
RECURSIVE PollFrom(_, _, _, _)
PollFrom(cf, m, i, logged) ==
  IF i > Len(m) THEN [idx |-> 0, logged |-> logged]
  ELSE IF PollSends(cf[m[i].client]) THEN [idx |-> i, logged |-> logged]
  ELSE PollFrom(cf, m, i + 1, logged \cup {PollRejection(cf[m[i].client])})

\* poll as it would be without the try/catch around client.poll(): the first
\* failure is thrown to the caller and the pass is over.
PollAbortsOnFailure(r, notify, countBefore) ==
  /\ IF r.logged # {}
       THEN /\ pollCall' = NoPoll
            /\ out' = [Quiet EXCEPT !.err = "Failed to poll"]
       ELSE IF r.idx # 0
       THEN /\ pollCall' = [active |-> TRUE, idx |-> r.idx,
                            client |-> clients[r.idx].client,
                            notify |-> notify, countBefore |-> countBefore]
            /\ out' = Quiet
       ELSE /\ pollCall' = NoPoll
            /\ out' = [Quiet EXCEPT
                 !.ret = 1,
                 !.events = IF notify /\ Len(interactions') > countBefore
                              THEN <<"DataChanged">> ELSE << >>]
  /\ client' = Collect(client, clients, calls, stopCall, pollCall')

\* poll's loop went on to entry idx: either it is suspended again, or it is
\* over and DataChanged is sent if notifyOthers is set and the log has grown.
PollGoesOn(r, notify, countBefore) ==
  /\ IF r.idx # 0
       THEN /\ pollCall' = [active |-> TRUE, idx |-> r.idx,
                            client |-> clients[r.idx].client,
                            notify |-> notify, countBefore |-> countBefore]
            /\ out' = [Quiet EXCEPT !.logged = r.logged]
       ELSE /\ pollCall' = NoPoll
            /\ out' = [Quiet EXCEPT
                 !.ret = 1,
                 !.logged = r.logged,
                 !.events = IF notify /\ Len(interactions') > countBefore
                              THEN <<"DataChanged">> ELSE << >>]
  /\ client' = Collect(client, clients, calls, stopCall, pollCall')

\* InteractshStore.poll up to its first suspension.
Poll(notifyOthers) ==
  /\ ~pollCall.active
  /\ UNCHANGED << storeVars, dataVars, hostVars, created, calls, initialized, stopCall >>
  /\ IF ~isStarted
       THEN /\ out' = [Quiet EXCEPT !.err = "Interactsh store not started"]
            /\ UNCHANGED << client, pollCall >>
       ELSE PollGoesOn(PollFrom(client, clients, 1, {}), notifyOthers, Len(interactions))

\* The /poll response reaches the client poll() is suspended on: the
\* interactions go to the callback, an error is logged; then poll's loop goes
\* on with the next entry of the map.
ForcePollResponse(resp) ==
  /\ pollCall.active
  /\ Len(Ingest(resp).interactions) <= MaxLog
  /\ Ingest(resp).interactionCounter <= MaxCounter
  /\ UNCHANGED << storeVars, activeUrls, hostVars, created, calls, initialized,
                  stopCall >>
  /\ interactions' = Ingest(resp).interactions
  /\ interactionCounter' = Ingest(resp).interactionCounter
  /\ issued' = Ingest(resp).issued
  /\ now' = now
  /\ persisted' = Ingest(resp).persisted
  /\ PollGoesOn(PollFrom(client, clients, pollCall.idx + 1,
                         IF resp.status = 200 THEN Ingest(resp).logged
                         ELSE {GetInteractionsError(resp.status)}),
                pollCall.notify, pollCall.countBefore)

\* ------------------------------------------------------------------ crypto
\* The decryption pipeline of services/crypto on reduced widths: a byte has
\* ByteBits bits, an AES block BlockLen bytes, an AES key KeyLen bytes, a
\* SHA-256 digest hLen bytes, and the RSA primes have five bits. Every step
\* of the code is kept: the byte/integer conversions, the CRT, the OAEP
\* unmasking and its checks, the fitting of the key, the CFB feedback and the
\* conversion to a string.
ByteBits == 2
ByteSize == 2 ^ ByteBits
BlockLen == 2
KeyLen == 1
hLen == 1

\* The byte-wise a[i] ^ b[i] of the loops over i < a.length.
XorSeq(a, b) ==
  LET RECURSIVE Xor(_, _)
      Xor(x, y) ==
        IF x = 0 THEN y
        ELSE IF y = 0 THEN x
        ELSE ((x + y) % 2) + 2 * Xor(x \div 2, y \div 2)
  IN  [i \in 1..Len(a) |-> Xor(a[i], b[i])]

\* new Uint8Array(length), all zero
Zeros(length) == [i \in 1..length |-> 0]

\* uint8ArrayToBigInt: big-endian.
RECURSIVE uint8ArrayToBigInt(_)
uint8ArrayToBigInt(bytes) ==
  IF bytes = << >> THEN 0
  ELSE uint8ArrayToBigInt(SubSeq(bytes, 1, Len(bytes) - 1)) * ByteSize
         + bytes[Len(bytes)]

\* bigIntToUint8Array: the low length bytes of num, big-endian.
bigIntToUint8Array(num, length) ==
  [i \in 1..length |-> (num \div (ByteSize ^ (length - i))) % ByteSize]

\* bigIntLength: the number of bits of n.
RECURSIVE bigIntLength(_)
bigIntLength(n) == IF n > 0 THEN 1 + bigIntLength(n \div 2) ELSE 0

\* modPow: square and multiply.
modPow(base, exp, mod) ==
  LET RECURSIVE Loop(_, _, _)
      Loop(result, b, e) ==
        IF e > 0
          THEN Loop(IF e % 2 = 1 THEN (result * b) % mod ELSE result,
                    (b * b) % mod, e \div 2)
          ELSE result
  IN  Loop(1, base % mod, exp)

\* modInverse: the inverse of a modulo m in 0..m-1 (the code throws when
\* there is none).
modInverse(a, m) == CHOOSE x \in 0..(m - 1) : (a * x) % m = 1

\* generateRSAKeyPair, from the two primes on.
generateRSAKeyPair(p, q) ==
  LET n   == p * q
      phi == (p - 1) * (q - 1)
      e   == 65537
      d   == modInverse(e, phi)
  IN  [ publicKey  |-> [n |-> n, e |-> e],
        privateKey |-> [ n |-> n, d |-> d, p |-> p, q |-> q,
                         dp |-> d % (p - 1), dq |-> d % (q - 1),
                         qi |-> modInverse(q, p) ] ]

\* The keypair the crypto module holds, from the primes generatePrime
\* returns for the keypairs of RSAKeys.
KeyPairOf(kp) ==
  IF kp = 1 THEN generateRSAKeyPair(23, 29) ELSE generateRSAKeyPair(19, 37)

\* createHash("sha256").update(data).digest(), reduced to hLen bytes that
\* depend on every byte of data, on its place and on the length.
sha256(data) ==
  LET RECURSIVE Weigh(_)
      Weigh(d) ==
        IF d = << >> THEN 1
        ELSE Weigh(SubSeq(d, 1, Len(d) - 1)) * 3 + d[Len(d)] + Len(d)
  IN  [i \in 1..hLen |-> (Weigh(data) + i - 1) % ByteSize]

\* mgf1Sha256: the blocks sha256(seed || counter) from the counter 0 on, cut
\* to length bytes.
mgf1Sha256(seed, length) ==
  LET RECURSIVE From(_, _)
      From(left, counter) ==
        IF left <= 0 THEN << >>
        ELSE LET hash    == sha256(seed \o bigIntToUint8Array(counter, 4))
                 copyLen == IF hLen < left THEN hLen ELSE left
             IN  SubSeq(hash, 1, copyLen) \o From(left - copyLen, counter + 1)
  IN  From(length, 0)

\* oaepDecode with the empty label: the message, or the error thrown. The
\* separator is the index of the 0x01 in db after the hash, 0 if a byte that
\* is neither 0 nor 1 comes first or none is found.
oaepDecode(em) ==
  LET k          == Len(em)
      maskedSeed == SubSeq(em, 2, 1 + hLen)
      maskedDB   == SubSeq(em, 2 + hLen, k)
      seed       == XorSeq(maskedSeed, mgf1Sha256(maskedDB, hLen))
      db         == XorSeq(maskedDB, mgf1Sha256(seed, k - hLen - 1))
      valid      == em[1] = 0 /\ sha256(<< >>) = SubSeq(db, 1, hLen)
      RECURSIVE FindSeparator(_)
      FindSeparator(i) ==
        IF i > Len(db) THEN 0
        ELSE IF db[i] = 1 THEN i
        ELSE IF db[i] # 0 THEN 0
        ELSE FindSeparator(i + 1)
      separator  == FindSeparator(hLen + 1)
  IN  IF k < 2 * hLen + 2
        THEN [err |-> "Decryption error: message too short", bytes |-> << >>]
      ELSE IF ~valid \/ separator = 0
        THEN [err |-> "Decryption error: invalid OAEP padding", bytes |-> << >>]
      ELSE [err |-> "", bytes |-> SubSeq(db, separator + 1, Len(db))]

\* rsaDecryptRaw: the CRT.
rsaDecryptRaw(ciphertext, privateKey) ==
  LET p  == privateKey.p
      q  == privateKey.q
      m1 == modPow(ciphertext % p, privateKey.dp, p)
      m2 == modPow(ciphertext % q, privateKey.dq, q)
      h  == (privateKey.qi * ((m1 - m2 + p) % p)) % p
  IN  m2 + h * q

\* rsaOaepDecrypt; k is the length of the modulus in bytes.
rsaOaepDecrypt(ciphertext, privateKey) ==
  LET k == (bigIntLength(privateKey.n) + ByteBits - 1) \div ByteBits
  IN  IF Len(ciphertext) # k
        THEN [err |-> "Decryption error: ciphertext length != key length",
              bytes |-> << >>]
        ELSE oaepDecode(bigIntToUint8Array(
               rsaDecryptRaw(uint8ArrayToBigInt(ciphertext), privateKey), k))

\* keyExpansion and aesEncryptBlock, reduced to a permutation of the blocks
\* that the key selects: byte j of the output is the sum of the bytes up to j
\* of the input, of a byte of the key and of j.
aesEncryptBlock(block, key) ==
  LET RECURSIVE SumUpTo(_)
      SumUpTo(j) == IF j = 0 THEN 0 ELSE SumUpTo(j - 1) + block[j]
  IN  [j \in 1..Len(block) |->
         (SumUpTo(j) + key[((j - 1) % Len(key)) + 1] + j) % ByteSize]

\* aesCfbDecrypt as it would be with the plaintext block fed back.
NextPreviousBlockPlain(block, plain) ==
  IF Len(plain) = BlockLen THEN plain ELSE plain \o Zeros(BlockLen - Len(plain))

\* The previousBlock aesCfbDecrypt goes on with: the ciphertext block, not
\* the plaintext, a last partial one filled with zeros.
NextPreviousBlock(block, plain) ==
  IF Len(block) = BlockLen THEN block ELSE block \o Zeros(BlockLen - Len(block))

\* aesCfbDecrypt for a key of KeyLen bytes and an IV of BlockLen bytes: the
\* loop over the blocks, from the IV as the first previousBlock.
aesCfbDecrypt(key, iv, ciphertext) ==
  LET RECURSIVE From(_, _)
      From(previousBlock, rest) ==
        IF rest = << >> THEN << >>
        ELSE LET blockSize == IF BlockLen < Len(rest) THEN BlockLen ELSE Len(rest)
                 block     == SubSeq(rest, 1, blockSize)
                 plain     == XorSeq(block, aesEncryptBlock(previousBlock, key))
             IN  plain \o From(NextPreviousBlock(block, plain),
                               SubSeq(rest, blockSize + 1, Len(rest)))
  IN  From(iv, ciphertext)

\* The error aesCfbDecrypt and aesCfbEncrypt throw for other lengths.
AesCfbError(key, iv) ==
  IF Len(key) # KeyLen THEN "AES-256 requires a 32-byte key"
  ELSE IF Len(iv) # BlockLen THEN "AES requires a 16-byte IV"
  ELSE ""

\* aesCfbEncrypt for a key of KeyLen bytes and an IV of BlockLen bytes: the
\* loop over the blocks, the ciphertext block fed back, a last partial one
\* filled with zeros.
aesCfbEncrypt(key, iv, plaintext) ==
  LET RECURSIVE From(_, _)
      From(previousBlock, rest) ==
        IF rest = << >> THEN << >>
        ELSE LET blockSize == IF BlockLen < Len(rest) THEN BlockLen ELSE Len(rest)
                 block     == XorSeq(SubSeq(rest, 1, blockSize),
                                     aesEncryptBlock(previousBlock, key))
             IN  block \o From(IF blockSize = BlockLen THEN block
                                ELSE block \o Zeros(BlockLen - blockSize),
                               SubSeq(rest, blockSize + 1, Len(rest)))
  IN  From(iv, plaintext)

\* decodeURIComponent(escape(s)) on bytes: a byte below 2 is a character of
\* its own, the byte 3 followed by a byte from 2 on is the character of that
\* second byte, anything else is malformed (-1 marks it).
RECURSIVE utf8Decode(_)
utf8Decode(bytes) ==
  IF bytes = << >> THEN << >>
  ELSE IF bytes[1] < 2 THEN <<bytes[1]>> \o utf8Decode(Tail(bytes))
  ELSE IF bytes[1] = 3 /\ Len(bytes) >= 2 /\ bytes[2] >= 2
    THEN <<bytes[2]>> \o utf8Decode(Tail(Tail(bytes)))
  ELSE <<-1>>

\* uint8ArrayToString: the UTF-8 reading of the bytes, and if they are not
\* UTF-8 the string with one character per byte.
uint8ArrayToString(bytes) ==
  LET s == utf8Decode(bytes)
  IN  IF \E i \in 1..Len(s) : s[i] = -1 THEN bytes ELSE s

\* The UTF-8 bytes of a string, as the server puts them on the wire.
RECURSIVE utf8Encode(_)
utf8Encode(s) ==
  IF s = << >> THEN << >>
  ELSE (IF s[1] < 2 THEN <<s[1]>> ELSE <<3, s[1]>>) \o utf8Encode(Tail(s))

\* decryptMessage, after the Base64 decoding of its two arguments by Buffer:
\* the string, or the error thrown. The decrypted key is fitted to the AES
\* key length: filled with zeros or cut.
decryptMessage(key, secureMessage) ==
  LET decryptedKey == rsaOaepDecrypt(key, KeyPairOf(keyPair).privateKey)
      FitKey(dk)   ==
        IF Len(dk) = KeyLen THEN dk
        ELSE IF Len(dk) < KeyLen THEN dk \o Zeros(KeyLen - Len(dk))
        ELSE SubSeq(dk, 1, KeyLen)
      iv           == SubSeq(secureMessage, 1,
                             IF BlockLen < Len(secureMessage) THEN BlockLen
                             ELSE Len(secureMessage))
      ciphertext   == SubSeq(secureMessage, Len(iv) + 1, Len(secureMessage))
      aesKey       == FitKey(decryptedKey.bytes)
  IN  IF decryptedKey.err # "" THEN [err |-> decryptedKey.err, text |-> << >>]
      ELSE IF AesCfbError(aesKey, iv) # ""
        THEN [err |-> AesCfbError(aesKey, iv), text |-> << >>]
      ELSE [err |-> "", text |-> uint8ArrayToString(aesCfbDecrypt(aesKey, iv, ciphertext))]

\* The server's RSA-OAEP encryption to the public key it got in /register,
\* the other side of rsaOaepDecrypt: EM = 00 || maskedSeed || maskedDB for the
\* message and a seed of hLen bytes, in the k bytes of the modulus.
rsaOaepEncrypt(message, seed, publicKey) ==
  LET k        == (bigIntLength(publicKey.n) + ByteBits - 1) \div ByteBits
      db       == sha256(<< >>) \o Zeros(k - Len(message) - 2 * hLen - 2)
                    \o <<1>> \o message
      maskedDB == XorSeq(db, mgf1Sha256(seed, k - hLen - 1))
      em       == <<0>> \o XorSeq(seed, mgf1Sha256(maskedDB, hLen)) \o maskedDB
  IN  bigIntToUint8Array(
        modPow(uint8ArrayToBigInt(em), publicKey.e, publicKey.n), k)

\* All byte strings of length lo to hi.
BytesOf(lo, hi) == UNION { [1..n -> 0..(ByteSize - 1)] : n \in lo..hi }

\* The server encrypts the plaintext m for the client: the AES key k goes
\* under RSA-OAEP with a random seed into aes_key, the IV and the AES-CFB
\* ciphertext of m into the item.
ServerEncrypts(m, k, iv, seed) ==
  /\ wire.stage = "none"
  /\ wire' = [ stage   |-> "sent", m |-> m, k |-> k, iv |-> iv,
               aes_key |-> rsaOaepEncrypt(k, seed, KeyPairOf(keyPair).publicKey),
               data    |-> iv \o aesCfbEncrypt(k, iv, m),
               ret     |-> NoWire.ret ]
  /\ out' = Quiet
  /\ UNCHANGED << storeVars, dataVars, fileVars, keyPair, rsaKeys, sessions, moduli,
                  clientVars, calls, initialized, stopCall, pollCall >>

\* getInteractions calls decryptMessage(data.aes_key, item).
ClientDecrypts ==
  /\ wire.stage = "sent"
  /\ wire' = [wire EXCEPT !.stage = "read",
                          !.ret = decryptMessage(wire.aes_key, wire.data)]
  /\ out' = [Quiet EXCEPT !.logged =
       IF decryptMessage(wire.aes_key, wire.data).err # ""
         THEN {"Failed to decrypt/parse interaction"} ELSE {}]
  /\ UNCHANGED << storeVars, dataVars, fileVars, keyPair, rsaKeys, sessions, moduli,
                  clientVars, calls, initialized, stopCall, pollCall >>

\* ------------------------------------------------------------------ random strings
\* const characters of generateRandomString.
characters(lettersOnly) ==
  IF lettersOnly
    THEN << "a", "b", "c", "d", "e", "f", "g", "h", "i", "j", "k", "l", "m",
            "n", "o", "p", "q", "r", "s", "t", "u", "v", "w", "x", "y", "z" >>
    ELSE << "a", "b", "c", "d", "e", "f", "g", "h", "i", "j", "k", "l", "m",
            "n", "o", "p", "q", "r", "s", "t", "u", "v", "w", "x", "y", "z",
            "0", "1", "2", "3", "4", "5", "6", "7", "8", "9" >>

\* The values of one byte of randomBytes.
ByteValues == 0..255

\* The loop of generateRandomString over the bytes randomBytes(length) has
\* returned: characters[bytes[i] % characters.length] for each of them.
randomString(bytes, lettersOnly) ==
  [ i \in 1..Len(bytes) |->
      characters(lettersOnly)[(bytes[i] % Len(characters(lettersOnly))) + 1] ]

\* generateRandomString(Len(bytes), lettersOnly) is called, once in a run,
\* and randomBytes returns bytes.
GenerateRandomString(bytes, lettersOnly) ==
  /\ out.ret = << >>
  /\ out' = [Quiet EXCEPT !.ret = randomString(bytes, lettersOnly)]
  /\ UNCHANGED << storeVars, dataVars, hostVars, clientVars, calls, initialized,
                  stopCall, pollCall >>

\* ------------------------------------------------------------------ stored keys
\* exportRSAKeyPair: every number of the keypair as BigInt.toString() writes
\* it, a sequence of decimal digits.
exportRSAKeyPair(kp) ==
  LET RECURSIVE toString(_)
      toString(n) == IF n < 10 THEN <<n>> ELSE toString(n \div 10) \o <<n % 10>>
  IN  [ publicKey  |-> [f \in DOMAIN kp.publicKey |-> toString(kp.publicKey[f])],
        privateKey |-> [f \in DOMAIN kp.privateKey |-> toString(kp.privateKey[f])] ]

\* importRSAKeyPair: BigInt(string) on every field, which throws on a
\* character that is no digit (10 stands for one) and gives 0 for the empty
\* string; the keypair is assigned after the last field only.
importRSAKeyPair(serialized) ==
  LET RECURSIVE BigInt(_)
      BigInt(s) == IF s = << >> THEN 0
                   ELSE BigInt(SubSeq(s, 1, Len(s) - 1)) * 10 + s[Len(s)]
      Throws(part) == \E f \in DOMAIN part : \E i \in 1..Len(part[f]) : part[f][i] > 9
  IN  IF Throws(serialized.publicKey) \/ Throws(serialized.privateKey)
        THEN [err |-> TRUE, keyPair |-> << >>]
        ELSE [ err     |-> FALSE,
               keyPair |->
                 [ publicKey  |-> [f \in DOMAIN serialized.publicKey |->
                                     BigInt(serialized.publicKey[f])],
                   privateKey |-> [f \in DOMAIN serialized.privateKey |->
                                     BigInt(serialized.privateKey[f])] ] ]

\* The rows table rsa_keys can hold besides the export of a keypair: one
\* whose key_data is no JSON, and one whose last field is no number.
BadRows == {-1, -2}

\* JSON.parse(row.key_data) for the row: the export of the keypair a row is
\* named after, or what a bad row holds.
KeyData(row) ==
  IF row = -1 THEN [err |-> TRUE, serialized |-> << >>]
  ELSE IF row = -2
    THEN [ err |-> FALSE,
           serialized |-> [exportRSAKeyPair(KeyPairOf(1)) EXCEPT !.privateKey.qi = <<1, 10>>] ]
  ELSE [err |-> FALSE, serialized |-> exportRSAKeyPair(KeyPairOf(row))]

\* loadOrGenerateRSAKeys as it would be without saveRSAKeys.
loadOrGenerateRSAKeysUnsaved(kp, row) ==
  LET loaded == IF row = 0 \/ KeyData(row).err THEN [err |-> TRUE, keyPair |-> << >>]
                ELSE importRSAKeyPair(KeyData(row).serialized)
  IN  IF ~loaded.err
        THEN [ ret |-> 1, row |-> row, logged |-> {},
               keyPair |-> CHOOSE k \in RSAKeys : KeyPairOf(k) = loaded.keyPair ]
        ELSE [ ret |-> 0, keyPair |-> kp, row |-> row,
               logged |-> IF row = 0 THEN {} ELSE {"Failed to load RSA keys"} ]

\* SessionStore.loadOrGenerateRSAKeys with the keypair kp in memory (init has
\* called initializeRSAKeys, which does nothing from then on) and the row in
\* the table (0: none): what it returns (1: true), the keypair and the row
\* after it, and what it logs.
loadOrGenerateRSAKeys(kp, row) ==
  LET loaded == IF row = 0 \/ KeyData(row).err THEN [err |-> TRUE, keyPair |-> << >>]
                ELSE importRSAKeyPair(KeyData(row).serialized)
  IN  IF ~loaded.err
        THEN [ ret |-> 1, row |-> row, logged |-> {},
               keyPair |-> CHOOSE k \in RSAKeys : KeyPairOf(k) = loaded.keyPair ]
        ELSE [ ret |-> 0, keyPair |-> kp,
               \* saveRSAKeys: INSERT OR REPLACE of the export
               row |-> CHOOSE r \in RSAKeys :
                         KeyData(r).serialized = exportRSAKeyPair(KeyPairOf(kp)),
               logged |-> IF row = 0 THEN {} ELSE {"Failed to load RSA keys"} ]

\* The host calls SessionStore.loadOrGenerateRSAKeys.
LoadOrGenerateRSAKeys ==
  /\ keyPair' = loadOrGenerateRSAKeys(keyPair, rsaKeys).keyPair
  /\ rsaKeys' = loadOrGenerateRSAKeys(keyPair, rsaKeys).row
  /\ out' = [Quiet EXCEPT !.ret = loadOrGenerateRSAKeys(keyPair, rsaKeys).ret,
                          !.logged = loadOrGenerateRSAKeys(keyPair, rsaKeys).logged]
  /\ UNCHANGED << storeVars, dataVars, fileVars, sessions, wire, moduli, clientVars,
                  calls, initialized, stopCall, pollCall >>

\* ------------------------------------------------------------------ client API
\* The client the host drives by itself, through the API of
\* createInteractshClient, one call at a time: calls[Unit] is "held" between
\* two calls and names the call that is suspended otherwise.
Unit == 1

Held == [NoCall EXCEPT !.kind = "held"]

\* The polling loops of a client that are still running.
Loops(cl) == cl.loopsInFlight + cl.loopsSleeping

\* The rest of the program stands still while the client is driven.
ClientFrame ==
  UNCHANGED << storeVars, dataVars, hostVars, created, initialized, stopCall, pollCall >>

\* client.start(options) up to the await of performRegistration.
ClientStart(options, cid) ==
  /\ calls[Unit] = Held
  /\ IsCorrelationId(options, cid)
  /\ client' = [client EXCEPT ![Unit] = initialize(@, options, cid)]
  /\ calls' = [calls EXCEPT ![Unit] =
       [kind |-> "start", tag |-> "", keepAliveInterval |-> options.keepAliveInterval]]
  /\ moduli' = moduli \cup {keyPair}
  /\ out' = Quiet
  /\ UNCHANGED << storeVars, dataVars, fileVars, sessionVars, created, initialized,
                  stopCall, pollCall >>

\* The texts a server puts into the body of an answer that is not a 200.
Bodies == {"invalid token", "quota exceeded"}

\* What performRegistration throws inside its try block, as the console.error
\* of its catch prints it: fetch rejected (status 0), or "Registration
\* failed: " followed by the body of a non-200 answer.
RegistrationErrorLogged(resp) ==
  IF resp.status = 0 THEN {"Registration error", "fetch failed"}
  ELSE {"Registration error", "Registration failed", resp.body}

\* What the catch of performRegistration throws to the caller, whatever was
\* thrown inside the try block.
performRegistrationError(resp) ==
  "Registration failed, please check your server URL and token"

\* The answer resp to POST /register (status 0: the request failed) reaches
\* client.start.
ClientStartAnswered(resp) ==
  /\ calls[Unit].kind = "start"
  /\ resp.status = 200 /\ calls[Unit].keepAliveInterval # 0 => Loops(client[Unit]) < MaxLoops
  /\ client' = [client EXCEPT ![Unit] =
       IF resp.status = 200 THEN Registered(@, calls[Unit].keepAliveInterval) ELSE @]
  /\ calls' = [calls EXCEPT ![Unit] = Held]
  /\ out' = IF resp.status = 200 THEN [Quiet EXCEPT !.ret = 1]
            ELSE [Quiet EXCEPT !.err = performRegistrationError(resp),
                               !.logged = RegistrationErrorLogged(resp)]
  /\ ClientFrame

\* The /register response reaches client.start.
ClientStartResponse(status) ==
  \E body \in Bodies : ClientStartAnswered([status |-> status, body |-> body])

\* client.start(options) with options.sessionInfo: it returns or throws
\* without an await.
ClientStartResumed(options) ==
  /\ calls[Unit] = Held
  /\ options.keepAliveInterval # 0 => Loops(client[Unit]) < MaxLoops
  /\ client' = [client EXCEPT ![Unit] = initializeResumed(@, options).cl]
  /\ out' = IF initializeResumed(client[Unit], options).err = ""
              THEN [Quiet EXCEPT !.ret = 1]
              ELSE [Quiet EXCEPT !.err = initializeResumed(client[Unit], options).err]
  /\ calls' = calls
  /\ ClientFrame

\* client.poll() up to the await of GET /poll.
ClientPoll ==
  /\ calls[Unit] = Held
  /\ IF PollSends(client[Unit])
       THEN /\ calls' = [calls EXCEPT ![Unit].kind = "poll"]
            /\ out' = Quiet
       ELSE /\ calls' = calls
            /\ out' = [Quiet EXCEPT !.err = PollRejection(client[Unit])]
  /\ client' = client
  /\ ClientFrame

\* The /poll response reaches client.poll.
ClientPollResponse(resp) ==
  /\ calls[Unit].kind = "poll"
  /\ calls' = [calls EXCEPT ![Unit] = Held]
  /\ out' = IF resp.status = 200 THEN [Quiet EXCEPT !.ret = 1]
            ELSE [Quiet EXCEPT !.err = GetInteractionsError(resp.status)]
  /\ client' = client
  /\ ClientFrame

\* JSON.parse on the strings of the reduced alphabet: a document is the
\* character 1 followed by its value, anything else is a SyntaxError.
JSONparse(text) ==
  IF text # << >> /\ text[1] = 1 THEN [err |-> FALSE, value |-> Tail(text)]
  ELSE [err |-> TRUE, value |-> << >>]

\* getInteractions' loop as it would be with one try block around the whole
\* loop: the first item that fails ends it.
getInteractionsLoopAborting(aes_key, data) ==
  LET RECURSIVE From(_)
      From(i) ==
        IF i > Len(data) THEN [calls |-> << >>, logged |-> {}]
        ELSE LET decryptedData == decryptMessage(aes_key, data[i])
                 interaction   == JSONparse(decryptedData.text)
             IN  IF decryptedData.err # "" \/ interaction.err
                   THEN [calls |-> << >>, logged |-> {"Failed to decrypt/parse interaction"}]
                   ELSE [From(i + 1) EXCEPT !.calls = <<interaction.value>> \o @]
  IN  IF aes_key # << >> THEN From(1) ELSE [calls |-> << >>, logged |-> {}]

\* getInteractions' loop over data.data of a 200 answer (<< >> is no aes_key):
\* each item is decrypted and parsed and goes to the callback, and an item
\* that throws on the way is logged. The calls of the callback in order, and
\* what the console gets.
getInteractionsLoop(aes_key, data) ==
  LET RECURSIVE From(_)
      From(i) ==
        IF i > Len(data) THEN [calls |-> << >>, logged |-> {}]
        ELSE LET decryptedData == decryptMessage(aes_key, data[i])
                 interaction   == JSONparse(decryptedData.text)
             IN  IF decryptedData.err # "" \/ interaction.err
                   THEN [From(i + 1) EXCEPT
                           !.logged = @ \cup {"Failed to decrypt/parse interaction"}]
                   ELSE [From(i + 1) EXCEPT !.calls = <<interaction.value>> \o @]
  IN  IF aes_key # << >> THEN From(1) ELSE [calls |-> << >>, logged |-> {}]

\* What a server puts into data for the client: the IV followed by the
\* AES-CFB encryption of a payload under the AES key <<2>>, or an item cut
\* short of its IV. The payloads: two JSON documents in UTF-8, one of them
\* with a character of two bytes; a document whose bytes are not UTF-8; a text
\* that is no document; bytes that are neither.
WireItems ==
  { [cut |-> FALSE, payload |-> m] :
      m \in { <<1, 0>>, <<1, 3, 2>>, <<1, 2>>, <<0, 1>>, <<2, 1>> } }
    \cup { [cut |-> TRUE, payload |-> << >>] }

\* The aes_key of the answer: the AES key under RSA-OAEP to the client's
\* public key, a value of another length, or none.
WireKeys == {"sealed", "short", "none"}

\* The 200 answer to GET /poll with the items of batch reaches client.poll;
\* wire keeps what the server sent, in the one answer with items of a run.
ClientPollBatch(key, batch) ==
  LET aes_key == IF key = "sealed"
                   THEN rsaOaepEncrypt(<<2>>, <<1>>, KeyPairOf(keyPair).publicKey)
                 ELSE IF key = "short" THEN <<0>> ELSE << >>
      data    == [i \in 1..Len(batch) |->
                    IF batch[i].cut THEN <<1>>
                    ELSE <<1, 3>> \o aesCfbEncrypt(<<2>>, <<1, 3>>, batch[i].payload)]
      done    == getInteractionsLoop(aes_key, data)
  IN  /\ calls[Unit].kind = "poll"
      /\ wire.stage = "none"
      /\ calls' = [calls EXCEPT ![Unit] = Held]
      /\ out' = [Quiet EXCEPT !.ret = 1, !.delivered = done.calls,
                              !.logged = done.logged]
      /\ wire' = [NoWire EXCEPT !.stage = "polled", !.m = batch,
                                !.k = IF key = "sealed" THEN <<2>> ELSE << >>,
                                !.aes_key = aes_key, !.data = data]
      /\ client' = client
      /\ UNCHANGED << storeVars, dataVars, fileVars, keyPair, rsaKeys, sessions,
                      moduli, created, initialized, stopCall, pollCall >>

\* client.close() up to the await of POST /deregister.
ClientClose ==
  /\ calls[Unit] = Held
  /\ IF CloseSends(client[Unit])
       THEN /\ calls' = [calls EXCEPT ![Unit].kind = "close"]
            /\ out' = Quiet
       ELSE /\ calls' = calls
            /\ out' = [Quiet EXCEPT !.err = CloseRejection(client[Unit])]
  /\ client' = client
  /\ ClientFrame

\* The /deregister response reaches close (called by the host or by stop).
ClientCloseResponse(status) ==
  /\ calls[Unit].kind = "close"
  /\ client' = [client EXCEPT ![Unit] = CloseResponse(@, status)]
  /\ calls' = [calls EXCEPT ![Unit] = Held]
  /\ out' = IF status = 200 THEN [Quiet EXCEPT !.ret = 1]
            ELSE [Quiet EXCEPT !.err = "Could not deregister from server"]
  /\ ClientFrame

\* client.stop() up to the await of POST /deregister.
ClientStopCall ==
  /\ calls[Unit] = Held
  /\ LET r == ClientStop(client[Unit])
     IN  /\ client' = [client EXCEPT ![Unit] = r.cl]
         /\ IF r.sends
              THEN /\ calls' = [calls EXCEPT ![Unit].kind = "close"]
                   /\ out' = Quiet
              ELSE /\ calls' = calls
                   /\ out' = [Quiet EXCEPT !.err = CloseRejection(r.cl)]
  /\ ClientFrame

\* client.stopPolling()
ClientStopPolling ==
  /\ calls[Unit] = Held
  /\ IF client[Unit].state = "Polling"
       THEN /\ client' = [client EXCEPT ![Unit] = stopPolling(@)]
            /\ out' = [Quiet EXCEPT !.ret = 1]
       ELSE /\ client' = client
            /\ out' = [Quiet EXCEPT !.err = "Client is not polling"]
  /\ calls' = calls
  /\ ClientFrame

\* client.updatePollingInterval(ms), which is setRefreshTimeSecond of the
\* whole seconds of ms.
ClientUpdatePollingInterval(ms) ==
  /\ calls[Unit] = Held
  /\ client[Unit].state = "Polling" => Loops(client[Unit]) < MaxLoops
  /\ IF (ms \div 1000) < 5 \/ (ms \div 1000) > 3600
       THEN /\ client' = client
            /\ out' = [Quiet EXCEPT
                 !.err = "The polling interval must be between 5 and 3600 seconds"]
       ELSE /\ client' = [client EXCEPT ![Unit] = setRefreshTimeSecond(@, ms \div 1000)]
            /\ out' = [Quiet EXCEPT !.ret = 1]
  /\ calls' = calls
  /\ ClientFrame

\* client.generateUrl(): ret tells whether the URL returned is a real one.
ClientGenerateUrlCall(randomId) ==
  /\ calls[Unit] = Held
  /\ IsNonce(client[Unit], randomId)
  /\ out' = [Quiet EXCEPT !.ret =
       IF ClientGenerateUrl(client[Unit], randomId).uniqueId = << >> THEN 0 ELSE 1]
  /\ UNCHANGED << client, calls >>
  /\ ClientFrame

\* A client fresh from createInteractshClient, in the hands of the host.
InitClientApi ==
  /\ isStarted = FALSE
  /\ currentOptions = NoOptions
  /\ clients = << >>
  /\ interactions = << >>
  /\ activeUrls = << >>
  /\ interactionCounter = 0
  /\ now = 0
  /\ issued = NoIds
  /\ filter = ""
  /\ writable = TRUE
  /\ persisted = PersistData(<< >>, << >>, 0)
  /\ client = [c \in ClientIds |->
                 IF c = Unit THEN createInteractshClient ELSE InitClient]
  /\ created = 1
  /\ calls = [c \in ClientIds |-> IF c = Unit THEN Held ELSE NoCall]
  /\ initialized = NoBatch
  /\ stopCall = NoStop
  /\ pollCall = NoPoll
  /\ out = Quiet
  /\ keyPair = 1
  /\ rsaKeys = 0
  /\ sessions = {}
  /\ wire = NoWire
  /\ moduli = {}

\* ------------------------------------------------------------------ specifications
\* What the server answers to GET /poll when it has nothing to report.
EmptyResponses ==
  { [status |-> s, data |-> << >>] : s \in {200, 400, 500} }

\* The manager and its clients: every call of the host that creates, polls or
\* stops clients, in any interleaving with the servers' answers and the timers.
\* generateRandomString returns "a" throughout and no interaction comes in.
Next ==
  \/ \E o \in StartOptions : Start(o)
  \/ \E s \in Servers : GenerateUrl(s, "", <<"a">>, <<"a">>)
  \/ \E n \in 1..2 : \E urls \in [1..n -> Servers] :
       InitializeClients(urls, [i \in 1..n |-> <<"a">>])
  \/ \E c \in ClientIds, status \in {200, 500} : RegisterResponse(c, status, <<"a">>)
  \/ \E c \in ClientIds, resp \in EmptyResponses : LoopResponse(c, resp)
  \/ \E c \in ClientIds : LoopWake(c)
  \/ Stop
  \/ \E status \in {200, 500} : DeregisterResponse(status)
  \/ \E n \in BOOLEAN : Poll(n)
  \/ \E resp \in EmptyResponses : ForcePollResponse(resp)

Spec == Init /\ [][Next]_vars

\* The server of the runs on the registry and the log.
DataServer == [protocol |-> "https://", host |-> "oast.site", path |-> ""]

\* The unique ids the host passes to setUrlActive and removeUrl: those a
\* client with correlation id "a" mints.
UniqueIdArgs == { <<"a">> \o n : n \in generateRandomString(1) }

\* The answers to GET /poll that carry interactions, and the one that ends the
\* session.
DataResponses == { resp \in PollResponses : resp.status \in {200, 400} }

\* The registry and the log: URLs are minted on one server, with and without a
\* tag, switched, removed and cleared, while the polling loop and the polls of
\* the host bring in interactions.
\* generateUrl called by a host that awaits one call before it makes the next.
GenerateUrlInTurn(serverUrl, tag, cid, randomId) ==
  /\ PendingGen = 0
  /\ GenerateUrl(serverUrl, tag, cid, randomId)

NextData ==
  \/ \E o \in StartOptions : Start(o)
  \/ \E tag \in Tags, n \in generateRandomString(1) :
       GenerateUrlInTurn(DataServer, tag, <<"a">>, n)
  \/ \E c \in ClientIds, n \in generateRandomString(1) : RegisterResponse(c, 200, n)
  \/ \E u \in UniqueIdArgs, b \in BOOLEAN : SetUrlActive(u, b)
  \/ \E u \in UniqueIdArgs : RemoveUrl(u)
  \/ ClearUrls
  \/ ClearAllData
  \/ \E c \in ClientIds, resp \in DataResponses : LoopResponse(c, resp)
  \/ \E c \in ClientIds : LoopWake(c)
  \/ \E n \in BOOLEAN : Poll(n)
  \/ \E resp \in DataResponses : ForcePollResponse(resp)

SpecData == Init /\ [][NextData]_vars

\* The answers to GET /poll of the runs on the persisted data: an interaction
\* for the URL "aa", one for no URL, and an empty batch.
StoreResponses ==
  { [status |-> 200, data |-> b] :
      b \in { << >>, <<[bad |-> FALSE, fullId |-> <<"a", "a">>]>>,
              <<[bad |-> FALSE, fullId |-> <<"a", "b">>]>> } }

\* The filters the host sets.
Filters == {"", "f"}

\* The persisted data: URLs are minted on one server and interactions come in
\* through its polling loop while the host deletes and clears, stops and
\* starts the store; writes to data.json fail at times and
\* the process is restarted at any moment.
NextStore ==
  \/ \E o \in StartOptions : Start(o)
  \/ GenerateUrlInTurn(DataServer, "t", <<"a">>, <<"a">>)
  \/ \E c \in ClientIds : RegisterResponse(c, 200, <<"a">>)
  \/ \E c \in ClientIds, resp \in StoreResponses : LoopResponseStore(c, resp)
  \/ \E c \in ClientIds : LoopWake(c)
  \/ Stop
  \/ DeregisterResponse(200)
  \/ ClearInteractions
  \/ \E u \in 1..MaxCounter : DeleteInteraction(u)
  \/ \E us \in SUBSET (1..MaxStoreLog) : DeleteInteractions(us)
  \/ ClearAllData
  \/ \E ok \in BOOLEAN : SetWritable(ok)
  \/ Restart(1)

SpecStore == Init /\ [][NextStore]_vars

\* The sessions and the keys: clients are registered on the servers, polled,
\* stopped, and the process is restarted at any moment, with any keypair
\* generateRSAKeyPair can return.
NextSession ==
  \/ \E o \in StartOptions : Start(o)
  \/ \E s \in Servers : GenerateUrlInTurn(s, "", <<"a">>, <<"a">>)
  \/ \E c \in ClientIds, status \in {200, 500} : RegisterResponse(c, status, <<"a">>)
  \/ \E c \in ClientIds, resp \in EmptyResponses : LoopResponse(c, resp)
  \/ \E c \in ClientIds : LoopWake(c)
  \/ Stop
  \/ \E status \in {200, 500} : DeregisterResponse(status)
  \/ \E k \in RSAKeys : Restart(k)

SpecSession == InitKeys /\ [][NextSession]_vars

\* The answers to the GET /poll of a poll of the host: an interaction for the
\* URL "aa", an empty batch, or a failure.
ForcedResponses ==
  StoreResponses \cup { [status |-> 500, data |-> << >>] }

\* The polls of the host: clients are registered on the servers, a polling
\* loop ends with an expired session, and the host polls, with and without
\* notifyOthers, and clears the log while the answers come in.
NextPoll ==
  \/ \E o \in StartOptions : Start(o)
  \/ \E s \in Servers : GenerateUrlInTurn(s, "", <<"a">>, <<"a">>)
  \/ \E c \in ClientIds : RegisterResponse(c, 200, <<"a">>)
  \/ \E c \in ClientIds : LoopResponse(c, [status |-> 400, data |-> << >>])
  \/ \E n \in BOOLEAN : Poll(n)
  \/ \E resp \in ForcedResponses : ForcePollResponse(resp)
  \/ ClearInteractions

SpecPoll == Init /\ [][NextPoll]_vars

\* The events and the file: generateUrl, a mutator of the registry,
\* clearAllData and setFilter on one server, while the polling loop brings in
\* interactions and writes to data.json fail at times.
NextEvents ==
  \/ \E o \in StartOptions : Start(o)
  \/ GenerateUrlInTurn(DataServer, "t", <<"a">>, <<"a">>)
  \/ \E c \in ClientIds : RegisterResponse(c, 200, <<"a">>)
  \/ \E c \in ClientIds, resp \in StoreResponses : LoopResponse(c, resp)
  \/ \E c \in ClientIds : LoopWake(c)
  \/ \E u \in UniqueIdArgs, b \in BOOLEAN : SetUrlActive(u, b)
  \/ ClearAllData
  \/ \E f \in Filters : SetFilter(f)
  \/ \E ok \in BOOLEAN : SetWritable(ok)

SpecEvents == Init /\ [][NextEvents]_vars

\* SettingsStore.validateSettings on pollingInterval: at least 1000 ms, with no
\* upper limit.
validateSettings(pollingInterval) ==
  IF pollingInterval < 1000 THEN 1000 ELSE pollingInterval

\* The options the host passes to client.start: without a keepAliveInterval,
\* and with the polling interval of settings of 500 ms and of 5000 ms; with
\* and without an onSessionExpired callback.
UnitOptions ==
  { [ serverURL                |-> DataServer,
      token                    |-> "",
      keepAliveInterval        |-> k,
      correlationIdLength      |-> 1,
      correlationIdNonceLength |-> 1,
      onSessionExpired         |-> cb ] :
      k \in {0} \cup { validateSettings(ms) : ms \in {500, 5000} },
      cb \in BOOLEAN }

\* The answers to GET /poll that carry no interaction.
UnitResponses ==
  { [status |-> s, data |-> << >>] : s \in {200, 400, 401, 500, 0} }

\* One client under its own API: the host makes any call when the call before
\* has returned, the server answers anything, the polling loops run on.
NextClient ==
  \/ \E o \in UnitOptions : ClientStart(o, <<"a">>)
  \/ \E status \in {200, 500, 0} : ClientStartResponse(status)
  \/ ClientPoll
  \/ \E resp \in UnitResponses : ClientPollResponse(resp)
  \/ ClientClose
  \/ \E status \in {200, 500, 0} : ClientCloseResponse(status)
  \/ ClientStopCall
  \/ ClientStopPolling
  \/ \E ms \in {4999, 5000, 60999, 3600000, 3601000} : ClientUpdatePollingInterval(ms)
  \/ ClientGenerateUrlCall(<<"a">>)
  \/ \E resp \in UnitResponses : LoopResponse(Unit, resp)
  \/ LoopWake(Unit)

SpecClient == InitClientApi /\ [][NextClient]_vars

\* One client under its own API when nothing waits for ever: a timer that
\* has been set fires (the event loop runs the callback of setTimeout) and a
\* GET /poll that has been sent is answered or fails.
SpecLive ==
  /\ InitClientApi
  /\ [][NextClient]_vars
  /\ WF_vars(LoopWake(Unit))
  /\ WF_vars(\E resp \in UnitResponses : LoopResponse(Unit, resp))

\* The IVs the server draws.
IVs == { <<0, 0>>, <<1, 3>>, <<2, 1>>, <<3, 2>> }

\* The decryption pipeline: the server encrypts any plaintext of up to MaxMsg
\* bytes under any AES key, one of four IVs and any OAEP seed, and the client
\* decrypts it.
InitCrypto == InitStore /\ rsaKeys = 0

NextCrypto ==
  \/ \E m \in BytesOf(0, MaxMsg), k \in BytesOf(KeyLen, KeyLen),
        iv \in IVs, seed \in BytesOf(hLen, hLen) :
       ServerEncrypts(m, k, iv, seed)
  \/ ClientDecrypts

SpecCrypto == InitCrypto /\ [][NextCrypto]_vars

\* The stored keys: init has made either keypair, table rsa_keys holds no
\* row, the export of either keypair or a bad row.
InitKeyRows ==
  /\ isStarted = FALSE
  /\ currentOptions = NoOptions
  /\ clients = << >>
  /\ interactions = << >>
  /\ activeUrls = << >>
  /\ interactionCounter = 0
  /\ now = 0
  /\ issued = NoIds
  /\ filter = ""
  /\ writable = TRUE
  /\ persisted = PersistData(<< >>, << >>, 0)
  /\ client = [c \in ClientIds |->
                 IF c = Unit THEN createInteractshClient ELSE InitClient]
  /\ created = 1
  /\ calls = [c \in ClientIds |-> IF c = Unit THEN Held ELSE NoCall]
  /\ initialized = NoBatch
  /\ stopCall = NoStop
  /\ pollCall = NoPoll
  /\ out = Quiet
  /\ keyPair \in RSAKeys
  /\ rsaKeys \in {0} \cup RSAKeys \cup BadRows
  /\ sessions = {}
  /\ wire = NoWire
  /\ moduli = {}

\* The keys are loaded at any time while a client registers and polls with
\* the keypair in memory.
NextKeys ==
  \/ LoadOrGenerateRSAKeys
  \/ \E o \in UnitOptions : ClientStart(o, <<"a">>)
  \/ \E status \in {200, 500} : ClientStartResponse(status)
  \/ \E resp \in UnitResponses : LoopResponse(Unit, resp)
  \/ LoopWake(Unit)

SpecKeys == InitKeyRows /\ [][NextKeys]_vars

\* generateRandomString on every string of bytes up to MaxStringLength, over
\* either alphabet.
NextRandom ==
  \E length \in 1..MaxStringLength, lettersOnly \in BOOLEAN :
    \E bytes \in [1..length -> ByteValues] : GenerateRandomString(bytes, lettersOnly)

\* Nothing is started and no string has been returned.
InitRandom ==
  /\ isStarted = FALSE
  /\ currentOptions = NoOptions
  /\ clients = << >>
  /\ interactions = << >>
  /\ activeUrls = << >>
  /\ interactionCounter = 0
  /\ now = 0
  /\ issued = NoIds
  /\ filter = ""
  /\ writable = TRUE
  /\ persisted = PersistData(<< >>, << >>, 0)
  /\ client = [c \in ClientIds |-> InitClient]
  /\ created = 0
  /\ calls = [c \in ClientIds |-> NoCall]
  /\ initialized = NoBatch
  /\ stopCall = NoStop
  /\ pollCall = NoPoll
  /\ out = [Quiet EXCEPT !.ret = << >>]
  /\ keyPair = 1
  /\ rsaKeys = 0
  /\ sessions = {}
  /\ wire = NoWire
  /\ moduli = {}

SpecRandom == InitRandom /\ [][NextRandom]_vars

\* The credentials of the clients: clients are created on either server with
\* any correlation id and secret, and are polled, expired and closed in any
\* interleaving.
NextCredentials ==
  \/ \E o \in StartOptions : Start(o)
  \/ \E s \in Servers, cid \in generateRandomString(1) : GenerateUrl(s, "", cid, <<"a">>)
  \/ \E c \in ClientIds, status \in {200, 500} : RegisterResponse(c, status, <<"a">>)
  \/ \E c \in ClientIds, resp \in EmptyResponses : LoopResponse(c, resp)
  \/ \E c \in ClientIds : LoopWake(c)
  \/ Stop
  \/ \E status \in {200, 500} : DeregisterResponse(status)
  \/ \E n \in BOOLEAN : Poll(n)
  \/ \E resp \in EmptyResponses : ForcePollResponse(resp)

SpecCredentials == Init /\ [][NextCredentials]_vars

\* The uniqueIds of one process: interactions come in on one server while
\* the clock runs and clearAllData is called at any time.
NextIds ==
  \/ \E o \in StartOptions : Start(o)
  \/ GenerateUrlInTurn(DataServer, "t", <<"a">>, <<"a">>)
  \/ \E c \in ClientIds : RegisterResponse(c, 200, <<"a">>)
  \/ \E c \in ClientIds, resp \in StoreResponses : LoopResponse(c, resp)
  \/ \E c \in ClientIds : LoopWake(c)
  \/ ClearAllData
  \/ Tick

\* The plugin is loaded for the first time and the uniqueIds are followed.
InitIds ==
  /\ isStarted = FALSE
  /\ currentOptions = NoOptions
  /\ clients = << >>
  /\ interactions = << >>
  /\ activeUrls = << >>
  /\ interactionCounter = 0
  /\ now = 0
  /\ issued = [NoIds EXCEPT !.followed = TRUE]
  /\ filter = ""
  /\ writable = TRUE
  /\ persisted = PersistData(<< >>, << >>, 0)
  /\ client = [c \in ClientIds |-> InitClient]
  /\ created = 0
  /\ calls = [c \in ClientIds |-> NoCall]
  /\ initialized = NoBatch
  /\ stopCall = NoStop
  /\ pollCall = NoPoll
  /\ out = Quiet
  /\ keyPair = 1
  /\ rsaKeys = 0
  /\ sessions = {}
  /\ wire = NoWire
  /\ moduli = {}

SpecIds == InitIds /\ [][NextIds]_vars

\* The sessions of an earlier run the host resumes: on either server, with
\* a correlation id, a secret key and a token of their own.
SessionInfos ==
  { [serverURL |-> s, token |-> k, correlationID |-> <<i>>, secretKey |-> <<x>>] :
      s \in Servers, k \in {"", "k"}, i \in Chars, x \in Chars }

\* The options of a start in resumed mode, with and without a polling
\* interval.
ResumeOptions ==
  { [ serverURL                |-> DataServer,
      token                    |-> "",
      sessionInfo              |-> s,
      keepAliveInterval        |-> k,
      correlationIdLength      |-> 1,
      correlationIdNonceLength |-> 1,
      onSessionExpired         |-> FALSE ] : s \in SessionInfos, k \in {0, 5000} }

\* One client started in resumed mode: it polls on its own and on the host's
\* call, and is stopped.
NextResume ==
  \/ \E o \in ResumeOptions : ClientStartResumed(o)
  \/ ClientPoll
  \/ \E resp \in UnitResponses : ClientPollResponse(resp)
  \/ ClientStopCall
  \/ \E status \in {200, 500} : ClientCloseResponse(status)
  \/ \E resp \in UnitResponses : LoopResponse(Unit, resp)
  \/ LoopWake(Unit)

SpecResume == InitClientApi /\ [][NextResume]_vars

\* The batches of a /poll answer: one client that is started with a polling
\* interval, polls on its own and on the host's call, and a server that
\* answers the host's poll with up to MaxItems items, good and bad in any
\* order, and the loop's with none.
NextBatch ==
  \/ \E o \in { u \in UnitOptions : u.keepAliveInterval = 5000 /\ ~u.onSessionExpired } :
       ClientStart(o, <<"a">>)
  \/ ClientStartResponse(200)
  \/ ClientPoll
  \/ \E key \in WireKeys : \E n \in 0..MaxItems : \E batch \in [1..n -> WireItems] :
       ClientPollBatch(key, batch)
  \/ LoopResponse(Unit, [status |-> 200, data |-> << >>])
  \/ LoopWake(Unit)

SpecBatch == InitClientApi /\ [][NextBatch]_vars


\* ------------------------------------------------------------------ properties
\* The entries of the registry whose unique id is a prefix of fullId or is
\* fullId.
Matching(fullId) ==
  { j \in 1..Len(activeUrls) :
      \/ /\ Len(activeUrls[j].uniqueId) <= Len(fullId)
         /\ SubSeq(fullId, 1, Len(activeUrls[j].uniqueId)) = activeUrls[j].uniqueId
      \/ activeUrls[j].uniqueId = fullId }

\* This step is the arrival of the answer resp to a GET /poll, of a polling
\* loop or of a poll of the host.
Arrives(resp) ==
  \/ \E c \in ClientIds : LoopResponse(c, resp)
  \/ ForcePollResponse(resp)

\* C1: an interaction the callback appends to the log has, in the registry of
\* that moment, an active URL whose unique id is a prefix of its full id or
\* equal to it.
C1_AcceptedHasActiveUrl ==
  [][ \A k \in (Len(interactions) + 1)..Len(interactions') :
        \E j \in Matching(interactions'[k].fullId) : activeUrls[j].isActive ]_vars

\* C1, its case: the log holds an interaction whose full id is the unique id
\* of an active URL, with no suffix.
C1_Witness ==
  \E k \in 1..Len(interactions), j \in 1..Len(activeUrls) :
    /\ interactions[k].fullId = activeUrls[j].uniqueId
    /\ activeUrls[j].isActive

\* C2: an answer whose interactions match only disabled URLs, or no URL at
\* all, leaves the log, the counter and the persisted data as they are, and
\* sends no DataChanged (a poll of the host sends it only for what the log
\* had gained before this answer).
C2_DroppedChangesNothing ==
  [][ \A resp \in DataResponses :
        ( /\ Arrives(resp)
          /\ resp.status = 200
          /\ \A i \in 1..Len(resp.data) :
               ~resp.data[i].bad =>
                 \A j \in Matching(resp.data[i].fullId) : ~activeUrls[j].isActive ) =>
            /\ interactions' = interactions
            /\ interactionCounter' = interactionCounter
            /\ persisted' = persisted
            /\ "DataChanged" \in { out'.events[e] : e \in 1..Len(out'.events) } =>
                 Len(interactions) > pollCall.countBefore ]_vars

\* C2, its case: an interaction for a disabled URL has just been dropped.
C2_Witness ==
  /\ "Interaction ignored (URL disabled)" \in out.logged
  /\ \E j \in 1..Len(activeUrls) : ~activeUrls[j].isActive

\* C3 as the specification has it: of several matching URLs the most recently
\* created decides whether the interaction is accepted and gives it its tag and
\* server URL.
C3_MostRecentWins ==
  [][ \A resp \in DataResponses :
        ( /\ Arrives(resp)
          /\ resp.status = 200
          /\ Len(resp.data) = 1
          /\ ~resp.data[1].bad
          /\ Matching(resp.data[1].fullId) # {} ) =>
            LET hits == Matching(resp.data[1].fullId)
                j    == CHOOSE h \in hits : \A g \in hits : h >= g
            IN  IF activeUrls[j].isActive
                  THEN /\ Len(interactions') = Len(interactions) + 1
                       /\ interactions'[Len(interactions')].tag = activeUrls[j].tag
                       /\ interactions'[Len(interactions')].serverUrl =
                            activeUrls[j].serverUrl
                  ELSE interactions' = interactions ]_vars

\* C3 as the code has it: of several matching URLs the earliest created, the
\* first in the registry, decides whether the interaction is accepted and gives
\* it its tag and server URL.
C3_EarliestWins ==
  [][ \A resp \in DataResponses :
        ( /\ Arrives(resp)
          /\ resp.status = 200
          /\ Len(resp.data) = 1
          /\ ~resp.data[1].bad
          /\ Matching(resp.data[1].fullId) # {} ) =>
            LET hits == Matching(resp.data[1].fullId)
                j    == CHOOSE h \in hits : \A g \in hits : h <= g
            IN  IF activeUrls[j].isActive
                  THEN /\ Len(interactions') = Len(interactions) + 1
                       /\ interactions'[Len(interactions')].tag = activeUrls[j].tag
                       /\ interactions'[Len(interactions')].serverUrl =
                            activeUrls[j].serverUrl
                  ELSE interactions' = interactions ]_vars

\* C3, its case: two URLs of the registry match the full id of an interaction
\* of the log, they differ in their tag, and the interaction has the tag of the
\* first.
C3_Witness ==
  /\ Len(activeUrls) = 2
  /\ Len(interactions) = 1
  /\ Matching(interactions[1].fullId) = {1, 2}
  /\ activeUrls[1].tag # activeUrls[2].tag
  /\ interactions[1].tag = activeUrls[1].tag

\* C4: every ActiveUrl of the registry has a non-empty unique id, a correlation
\* id followed by a nonce, and the URL https://<unique id>.<host of its server>;
\* none was taken from a client that is Closed, a generateUrl that overlaps
\* a stop included.
C4_UrlsAreMinted ==
  \A j \in 1..Len(activeUrls) :
    /\ activeUrls[j].uniqueId # << >>
    /\ \E cid \in generateRandomString(1), nonce \in generateRandomString(1) :
         activeUrls[j].uniqueId = cid \o nonce
    /\ activeUrls[j].url =
         <<"https://", activeUrls[j].uniqueId, ".", activeUrls[j].serverUrl.host>>

\* C5: for each server URL at most one client is registered and polling, and
\* a client that polls is the one the map holds for its server, also when the
\* calls that create clients overlap.
C5_OnePollingClientPerServer ==
  \A c \in ClientIds :
    client[c].state = "Polling" =>
      /\ \A d \in ClientIds \ {c} :
           client[d].state = "Polling" =>
             client[d].serverURLString # client[c].serverURLString
      /\ MapHas(clients, client[c].serverURLString)
      /\ MapGet(clients, client[c].serverURLString) = c

\* C6: when the answer to a client's poll is HTTP 400 and the pass of poll is
\* over, that client is no longer in the map and no error went to the caller.
C6_ExpiredClientRemoved ==
  [][ \A resp \in EmptyResponses :
        (resp.status = 400 /\ ForcePollResponse(resp) /\ ~pollCall'.active) =>
          /\ out'.err = ""
          /\ \A i \in 1..Len(clients') : clients'[i].client # pollCall.client ]_vars

\* C7: client.poll() on a client that is not Polling (Idle or Closed) throws
\* "Client is not polling", sends no GET /poll and leaves the client as it was.
C7_PollRejectedUnlessPolling ==
  [][ (ClientPoll /\ client[Unit].state # "Polling") =>
        /\ out'.err = "Client is not polling"
        /\ calls'[Unit] = Held
        /\ client'[Unit] = client[Unit] ]_vars

\* C7, its case: poll() has just been rejected on a client that is Closed.
C7_Witness ==
  /\ out.err = "Client is not polling"
  /\ client[Unit].state = "Closed"

\* C8: close() makes the client Closed only when /deregister answers 200; on
\* another status or no answer it throws and the client is Idle; on a client
\* that is Polling or Closed it throws without sending anything. close() is the
\* one the host calls and the one stop() calls.
C8_ClosedOnlyOn200 ==
  [][ /\ \A status \in {200, 500, 0} :
           ClientCloseResponse(status) =>
             IF status = 200
               THEN client'[Unit].state = "Closed" /\ out'.err = ""
               ELSE /\ client'[Unit].state = "Idle"
                    /\ out'.err = "Could not deregister from server"
      /\ (ClientClose /\ client[Unit].state \in {"Polling", "Closed"}) =>
           /\ out'.err \in {"Client should stop polling before closing",
                            "Client is already closed"}
           /\ calls'[Unit] = Held
           /\ client'[Unit] = client[Unit] ]_vars

\* C8, its case: a close() has just failed and the client is Idle.
C8_Witness ==
  /\ out.err = "Could not deregister from server"
  /\ client[Unit].state = "Idle"
  /\ calls[Unit] = Held

\* C9: a client that is Closed stays Closed as long as it exists.
C9_ClosedIsTerminal ==
  [][ \A c \in ClientIds :
        client[c].state = "Closed" => client'[c].state \in {"Closed", "Free"} ]_vars

\* C10: when stop returns, the map is empty, the manager is not started and
\* the result is true, whichever clients failed to stop; and after a client
\* failed, stop goes on to the entries after it, none of which is left Polling.
C10_StopAlwaysCompletes ==
  [][ \A status \in {200, 500} :
        ((Stop /\ isStarted) \/ DeregisterResponse(status)) =>
          /\ stopCall'.active => stopCall'.idx > stopCall.idx
          /\ ~stopCall'.active =>
               clients' = << >> /\ ~isStarted' /\ out'.ret = 1 /\ out'.err = ""
          /\ \A i \in 1..Len(clients) :
               (i > stopCall.idx /\ (stopCall'.active => i <= stopCall'.idx)) =>
                 client'[clients[i].client].state # "Polling" ]_vars

\* C10, its case: stop has returned true after the /deregister of one client
\* failed (it is Idle, its loop told to quit) and another client was closed.
C10_Witness ==
  /\ out.ret = 1 /\ ~isStarted /\ clients = << >> /\ ~stopCall.active
  /\ \E c, d \in ClientIds :
       /\ client[c].state = "Idle" /\ client[c].quitPollingFlag
       /\ client[d].state = "Closed"

\* C11: stop() on a store that is not started is a no-op that returns true: it
\* sends no request (no client changes, stop is not left suspended) and leaves
\* the map, the started flag, the log and the registry as they were.
C11_StopWhenStoppedIsNoOp ==
  [][(Stop /\ ~isStarted) =>
       /\ out'.ret = 1 /\ out'.err = "" /\ out'.events = << >>
       /\ ~stopCall'.active
       /\ clients' = clients /\ isStarted' = isStarted
       /\ currentOptions' = currentOptions
       /\ client' = client
       /\ interactions' = interactions /\ activeUrls' = activeUrls
       /\ interactionCounter' = interactionCounter
       /\ persisted' = persisted]_vars

\* stop() has just returned from a store that was not started while its map
\* still held a client (registered by a generateUrl that outlived a stop).
C11_Witness ==
  /\ ~isStarted
  /\ clients # << >>
  /\ out.ret = 1
  /\ "Interactsh store not started" \in out.logged

\* The events a step sends to the host.
Emitted(o) == { o.events[e] : e \in 1..Len(o.events) }

\* C12: an event is sent only when the state change it reports is in memory
\* and the write of that state to data.json has completed: with UrlGenerated
\* the new URL is in the registry and in the file, with FilterChanged the new
\* filter is set and in the file, with DataChanged the file holds the log,
\* the registry and the counter as they are in memory.
C12_EventsFollowStateAndWrite ==
  [][/\ "UrlGenerated" \in Emitted(out') =>
          /\ Len(activeUrls') = Len(activeUrls) + 1
          /\ persisted'.activeUrls = activeUrls'
     /\ "FilterChanged" \in Emitted(out') =>
          /\ filter' # filter
          /\ persisted'.filter = filter'
     /\ "DataChanged" \in Emitted(out') =>
          /\ persisted'.interactions = interactions'
          /\ persisted'.activeUrls = activeUrls'
          /\ persisted'.interactionCounter = interactionCounter']_vars

\* C13: once generateUrl has registered a client, table client_sessions holds
\* a session for its server with its correlation id: every client of the map
\* has a matching persisted session.
C13_ClientsHaveSessions ==
  \A i \in 1..Len(clients) :
    \E s \in sessions :
      /\ s.serverUrl = clients[i].serverUrl
      /\ s.correlationId = client[clients[i].client].correlationID

\* C14: when the database holds a keypair, the keypair in use is the same
\* before and after a restart: all the POST /register the servers have
\* received carried the same modulus.
C14_ModulusSurvivesRestart ==
  rsaKeys # 0 => Cardinality(moduli) <= 1

\* C15: when the callback accepts an interaction, it is appended to the log
\* with the tag and the server of the matching URL, the log is saved to
\* data.json, and DataChanged is sent.
C15_AcceptedIsSavedAndAnnounced ==
  [][ \A resp \in DataResponses :
        (Arrives(resp) /\ Len(interactions') > Len(interactions)) =>
          LET new == interactions'[Len(interactions')]
              u   == activeUrls[FindMatchingUrl(activeUrls, new.fullId)]
          IN  /\ new.tag = u.tag
              /\ new.serverUrl = u.serverUrl
              /\ persisted'.interactions = interactions'
              /\ "DataChanged" \in Emitted(out') ]_vars

\* C17 as stated: a second setUrlActive with the same arguments leaves the
\* registry as the first left it, and the two calls together send at most
\* one event; with an unknown unique id the call returns false, changes
\* nothing and sends nothing.
C17_TwoCallsOneEvent ==
  [][ \A u \in UniqueIdArgs, v \in BOOLEAN :
        SetUrlActive(u, v) =>
          LET second == setUrlActive(activeUrls', u, v)
          IN  /\ second.urls = activeUrls'
              /\ Len(out'.events) + Len(second.events) <= 1
              /\ FindUrl(u) = 0 =>
                   /\ out'.ret = 0 /\ out'.events = << >>
                   /\ activeUrls' = activeUrls /\ persisted' = persisted ]_vars

\* C17, amended: a second setUrlActive with the same arguments leaves the
\* registry as the first left it; each call on a known unique id returns
\* true, saves, and sends DataChanged if data.json could be written, the
\* second as the first; with an unknown unique id the call returns false,
\* changes nothing and sends nothing.
C17_SecondCallChangesNothing ==
  [][ \A u \in UniqueIdArgs, v \in BOOLEAN :
        SetUrlActive(u, v) =>
          LET second == setUrlActive(activeUrls', u, v)
          IN  /\ second.urls = activeUrls'
              /\ FindUrl(u) # 0 =>
                   /\ out'.ret = 1 /\ second.ret = 1
                   /\ activeUrls'[FindUrl(u)].isActive = v
                   /\ out'.events = emitDataChanged(TRUE)
                   /\ second.events = out'.events
              /\ FindUrl(u) = 0 =>
                   /\ out'.ret = 0 /\ out'.events = << >>
                   /\ activeUrls' = activeUrls /\ persisted' = persisted ]_vars

\* C17, its case: setUrlActive has just switched a known URL off and sent
\* DataChanged.
C17_Witness ==
  /\ out.ret = 1
  /\ "DataChanged" \in Emitted(out)
  /\ \E j \in 1..Len(activeUrls) : ~activeUrls[j].isActive

\* C16: poll(notifyOthers) calls poll() on every client of the map, in order:
\* none that would send is passed over and a failure (a client that rejects
\* the poll, a server that answers with an error) does not end the pass; when
\* the pass is over nothing is thrown and DataChanged is sent exactly if
\* notifyOthers is set and the log is longer than it was when the pass began.
C16_PollPassesAllAndNotifies ==
  [][ \A n \in BOOLEAN, resp \in ForcedResponses :
        ((Poll(n) /\ isStarted) \/ ForcePollResponse(resp)) =>
          LET notify == IF pollCall.active THEN pollCall.notify ELSE n
              countBefore == IF pollCall.active THEN pollCall.countBefore
                             ELSE Len(interactions)
              upTo == IF pollCall'.active THEN pollCall'.idx - 1 ELSE Len(clients)
          IN  /\ pollCall'.active => pollCall'.idx > pollCall.idx
              /\ \A i \in (pollCall.idx + 1)..upTo :
                   ~PollSends(client[clients[i].client])
              /\ ~pollCall'.active =>
                   /\ out'.err = ""
                   /\ "DataChanged" \in Emitted(out') <=>
                        (notify /\ Len(interactions') > countBefore) ]_vars

\* C16, its case: a pass with notifyOthers over two clients has ended with
\* DataChanged: the first client brought an interaction in, the second failed.
C16_Witness ==
  /\ ~pollCall.active
  /\ Len(clients) = 2
  /\ out.ret = 1
  /\ out.logged # {}
  /\ "DataChanged" \in Emitted(out)
  /\ Len(interactions) = 1

\* C18: after clearAllData the log and the registry are empty, the counter is
\* 0 and data.json holds this cleared state, while the map, the started flag
\* and the filter are as before; the next interaction accepted after that is
\* given the number 1.
C18_ClearAllDataResets ==
  [][ /\ ClearAllData =>
           /\ interactions' = << >>
           /\ activeUrls' = << >>
           /\ interactionCounter' = 0
           /\ persisted'.interactions = << >>
           /\ persisted'.activeUrls = << >>
           /\ persisted'.interactionCounter = 0
           /\ clients' = clients
           /\ isStarted' = isStarted
           /\ filter' = filter
      /\ \A resp \in StoreResponses :
           (Arrives(resp) /\ interactionCounter = 0
              /\ Len(interactions') > Len(interactions)) =>
             interactions'[Len(interactions')].uniqueId = 1 ]_vars

\* C19: the number initializeClients returns is the number of the listed URLs
\* that have a client in the map when it returns.
C19_CountIsClientsInMap ==
  [][ /\ \A n \in 1..2 : \A urls \in [1..n -> Servers] :
           (InitializeClients(urls, [i \in 1..n |-> <<"a">>]) /\ out'.ret # -1) =>
             out'.ret = Cardinality({i \in 1..n : MapHas(clients', urls[i])})
      /\ \A c \in ClientIds, status \in {200, 500} :
           (RegisterResponse(c, status, <<"a">>) /\ calls[c].kind = "init"
              /\ out'.ret # -1) =>
             out'.ret = Cardinality({i \in 1..Len(initialized.serverUrls) :
                                       MapHas(clients', initialized.serverUrls[i])}) ]_vars

\* C20: no two interactions of the log have the same unique_id, whatever
\* accepted interactions, deletes, clearInteractions, clearAllData, start,
\* stop and restarts on the saved file came before; the same holds of the log
\* in data.json.
C20_UniqueIdsAreUnique ==
  /\ \A i, j \in 1..Len(interactions) :
        i # j => interactions[i].uniqueId # interactions[j].uniqueId
  /\ \A i, j \in 1..Len(persisted.interactions) :
        i # j => persisted.interactions[i].uniqueId # persisted.interactions[j].uniqueId

\* Two interactions are in the log and in the file of a store that is not
\* started and has no client, and an earlier interaction is gone from the log.
C20_Witness ==
  /\ Len(interactions) = 2
  /\ interactions[1].uniqueId > 1
  /\ ~isStarted
  /\ clients = << >>
  /\ persisted.interactions = interactions

\* C21: a step of start, of stop, of generateUrl or of the polling loop
\* removes no entry of the log and moves none: the log before the step is
\* the beginning of the log after it.
C21_OnlyDeletesRemove ==
  [][ ( \/ \E o \in StartOptions : Start(o)
        \/ Stop
        \/ DeregisterResponse(200)
        \/ GenerateUrlInTurn(DataServer, "t", <<"a">>, <<"a">>)
        \/ \E c \in ClientIds : RegisterResponse(c, 200, <<"a">>)
        \/ \E c \in ClientIds, resp \in StoreResponses : LoopResponseStore(c, resp)
        \/ \E c \in ClientIds : LoopWake(c) ) =>
      /\ Len(interactions) <= Len(interactions')
      /\ SubSeq(interactions', 1, Len(interactions)) = interactions ]_vars

\* C22: updatePollingInterval with less than 5 or more than 3600 whole
\* seconds throws the error of the polling interval and leaves the client as
\* it was, and a client that is Polling has an interval from 5 s to 3600 s,
\* whether client.start or updatePollingInterval set it.
C22_IntervalInRange ==
  [][ /\ \A ms \in {4999, 5000, 60999, 3600000, 3601000} :
           ( /\ ClientUpdatePollingInterval(ms)
             /\ ((ms \div 1000) < 5 \/ (ms \div 1000) > 3600) ) =>
             /\ out'.err = "The polling interval must be between 5 and 3600 seconds"
             /\ client' = client
      /\ \A c \in ClientIds :
           client'[c].state = "Polling" =>
             /\ client'[c].pollingInterval >= 5000
             /\ client'[c].pollingInterval <= 3600000 ]_vars

\* C23: when /register answers with a status that is not 200, the error
\* client.start throws is not the error of a request that failed on the way,
\* and it is not the error of an answer with another body text.
C23_RegistrationErrorCarriesBody ==
  [][ \A status \in {500}, body \in Bodies :
        ClientStartAnswered([status |-> status, body |-> body]) =>
          /\ out'.err # ""
          /\ out'.err # performRegistrationError([status |-> 0, body |-> ""])
          /\ \A other \in Bodies \ {body} :
               out'.err # performRegistrationError([status |-> status, body |-> other])
    ]_vars

\* C24: whatever plaintext m, AES key k, IV and OAEP seed the server uses,
\* decryptMessage applied to (k under RSA-OAEP to the public key, the IV
\* followed by the AES-CFB encryption of m) throws nothing and returns m: the
\* bytes aesCfbDecrypt recovers are m for every length of m, and the string
\* returned is the string whose UTF-8 bytes are m.
C24_DecryptionRoundTrips ==
  wire.stage = "read" =>
    /\ wire.ret.err = ""
    /\ rsaOaepDecrypt(wire.aes_key, KeyPairOf(keyPair).privateKey).bytes = wire.k
    /\ aesCfbDecrypt(wire.k, wire.iv, aesCfbEncrypt(wire.k, wire.iv, wire.m)) = wire.m
    /\ (\A i \in 1..Len(utf8Decode(wire.m)) : utf8Decode(wire.m)[i] # -1) =>
         utf8Encode(wire.ret.text) = wire.m

\* A plaintext of one block and a part of a block, which is UTF-8 with a
\* character of two bytes, has been decrypted under a key and an IV that are
\* not zero.
C24_Witness ==
  /\ wire.stage = "read"
  /\ wire.m = <<3, 2, 1>>
  /\ wire.k = <<2>>
  /\ wire.iv = <<1, 3>>
  /\ wire.ret.text = <<2, 1>>

\* C25: a client has at most one polling loop alive (awaiting its GET /poll
\* or its timer), whatever calls of start, stopPolling, stop and
\* updatePollingInterval came before.
C25_OneLoopPerClient ==
  \A c \in ClientIds : Loops(client[c]) <= 1

\* C26: a client has at most one GET /poll outstanding, and a poll() of the
\* host is never outstanding together with one of a polling loop. The
\* requests of client c that have not been answered are those of its polling
\* loops, that of client.poll() called by the host, and that of client.poll()
\* called by InteractshStore.poll.
C26_OnePollOutstanding ==
  \A c \in ClientIds :
    /\ client[c].loopsInFlight
         + (IF calls[c].kind = "poll" THEN 1 ELSE 0)
         + (IF pollCall.active /\ pollCall.client = c THEN 1 ELSE 0) <= 1
    /\ ~(calls[c].kind = "poll" /\ client[c].loopsInFlight > 0)

\* C27: when stop has returned, the answer to a GET /poll that a stopped
\* client had in flight brings nothing into the log: a client that is not
\* Polling, with no stop in progress, appends no interaction.
C27_StoppedClientDeliversNothing ==
  [][ \A c \in ClientIds, resp \in StoreResponses :
        ( /\ LoopResponseStore(c, resp)
          /\ client[c].state # "Polling"
          /\ ~stopCall.active ) =>
          interactions' = interactions ]_vars

\* C28: when a polling loop of the client gets HTTP 400, the client calls its
\* sessionExpiredCallback once, with its server URL (and calls nothing if
\* none is set), its state becomes Idle, and that loop is gone: it neither
\* sleeps nor sends another GET /poll.
C28_SessionExpiredEndsLoop ==
  [][ \A resp \in UnitResponses :
        (LoopResponse(Unit, resp) /\ resp.status = 400) =>
          /\ out'.expired = IF client[Unit].sessionExpiredCallback
                              THEN <<client[Unit].serverURLString>> ELSE << >>
          /\ client'[Unit].serverURLString = DataServer
          /\ client'[Unit].state = "Idle"
          /\ client'[Unit].quitPollingFlag
          /\ client'[Unit].loopsInFlight = client[Unit].loopsInFlight - 1
          /\ client'[Unit].loopsSleeping = client[Unit].loopsSleeping ]_vars

\* The only loop of a client that was Polling has got a 400: the callback has
\* been called with the server URL, the client is Idle and no loop is left.
C28_Witness ==
  /\ out.expired = <<DataServer>>
  /\ client[Unit].state = "Idle"
  /\ Loops(client[Unit]) = 0
  /\ calls[Unit] = Held

\* C29: after an answer to a loop's GET /poll that is not a 400 (a 200, a
\* 401, a 500, a request that failed on the way) the loop is asleep and
\* nothing else of the client has changed, so a client that was Polling is
\* still Polling; nothing is thrown and a failure is logged. When the sleep
\* of a loop ends and polling has not been stopped, the loop sends the next
\* GET /poll.
C29_LoopSleepsThenPolls ==
  [][ /\ \A resp \in UnitResponses :
           (LoopResponse(Unit, resp) /\ resp.status # 400) =>
             /\ client'[Unit] = [client[Unit] EXCEPT !.loopsInFlight = @ - 1,
                                                     !.loopsSleeping = @ + 1]
             /\ out'.err = ""
             /\ out'.expired = << >>
             /\ (resp.status # 200) = ("Polling error" \in out'.logged)
      /\ (LoopWake(Unit) /\ ~client[Unit].quitPollingFlag) =>
             client'[Unit] = [client[Unit] EXCEPT !.loopsSleeping = @ - 1,
                                                  !.loopsInFlight = @ + 1] ]_vars

\* The only loop of a client that is Polling is asleep after a poll that
\* failed.
C29_Witness ==
  /\ client[Unit].state = "Polling"
  /\ client[Unit].loopsInFlight = 0
  /\ client[Unit].loopsSleeping = 1
  /\ calls[Unit] = Held
  /\ out.logged = {"Polling error"}

\* C30: a poll that is answered 401 fails with an error of its own: the error
\* client.poll() throws is neither the one it throws for a 500 or for a
\* request that failed on the way, nor the one it throws for a 400; and what
\* a polling loop reports for a 401 is not what it reports for a 500.
C30_AuthFailureIsDistinct ==
  [][ \A resp \in UnitResponses : resp.status = 401 =>
        /\ ClientPollResponse(resp) =>
             /\ out'.err # ""
             /\ out'.err # GetInteractionsError(500)
             /\ out'.err # GetInteractionsError(0)
             /\ out'.err # GetInteractionsError(400)
        /\ LoopResponse(Unit, resp) =>
             out'.logged # {"Polling error"} ]_vars

\* C31: when a 200 answer to GET /poll reaches client.poll (the step that
\* ends the call), the callback is called with exactly the items the server
\* sealed whole and whose text is a document, in the order of the data array:
\* an item that is cut short, or whose text is no document, is passed over
\* without stopping the items behind it, nothing is delivered when the
\* aes_key cannot be opened, and poll returns without an error.
C31_GoodItemsDeliveredInOrder ==
  [][ calls[Unit].kind = "poll" /\ calls'[Unit] = Held =>
        LET sent    == wire'.m
            Text(i) == uint8ArrayToString(sent[i].payload)
            good    == { i \in 1..Len(sent) : /\ wire'.k # << >>
                                              /\ ~sent[i].cut
                                              /\ ~JSONparse(Text(i)).err }
            Rank(i) == Cardinality({ j \in good : j <= i })
        IN  /\ wire'.stage = "polled"
            /\ out'.err = ""
            /\ out'.ret = 1
            /\ Len(out'.delivered) = Cardinality(good)
            /\ \A i \in good : out'.delivered[Rank(i)] = JSONparse(Text(i)).value
    ]_vars

\* A batch of three has been answered whose second item was cut short: the
\* first and the third were delivered, in that order.
C31_Witness ==
  /\ wire.stage = "polled"
  /\ Len(wire.m) = 3
  /\ wire.m[2].cut
  /\ out.ret = 1
  /\ out.delivered = << <<2>>, <<0>> >>
  /\ out.logged = {"Failed to decrypt/parse interaction"}

\* C32: stopPolling called on a client that is not Polling returns without an
\* error and leaves the client as it was.
C32_StopPollingIsIdempotent ==
  [][ ClientStopPolling /\ client[Unit].state # "Polling" =>
        /\ out'.err = ""
        /\ client' = client ]_vars

\* C33: client.start with a sessionInfo returns without a POST /register (no
\* call is left waiting and no server gets a public key); from then on the GET
\* /poll and the POST /deregister of the client are those of the sessionInfo:
\* its server, its correlation id, its secret key and its token; and no other
\* step changes them. With a keepAliveInterval the first GET /poll goes out
\* in the same step.
C33_ResumedUsesSuppliedCredentials ==
  [][ /\ \A o \in ResumeOptions :
           ClientStartResumed(o) =>
             /\ calls'[Unit] = Held
             /\ moduli' = moduli
             /\ PollRequest(client'[Unit]) =
                  [ url |-> buildUrl(o.sessionInfo.serverURL,
                                     <<"/poll?id=", o.sessionInfo.correlationID,
                                       "&secret=", o.sessionInfo.secretKey>>),
                    Authorization |-> o.sessionInfo.token ]
             /\ DeregisterRequest(client'[Unit]) =
                  [ url  |-> buildUrl(o.sessionInfo.serverURL, <<"/deregister">>),
                    body |-> [ correlationID |-> o.sessionInfo.correlationID,
                               secretKey     |-> o.sessionInfo.secretKey ],
                    Authorization |-> o.sessionInfo.token ]
             /\ (o.keepAliveInterval # 0 /\ out'.err = "" =>
                   client'[Unit].loopsInFlight = client[Unit].loopsInFlight + 1)
      /\ (~ \E o \in ResumeOptions : ClientStartResumed(o)) =>
           /\ PollRequest(client'[Unit]) = PollRequest(client[Unit])
           /\ DeregisterRequest(client'[Unit]) = DeregisterRequest(client[Unit])
    ]_vars

\* A client resumed with the id "a", the secret "b" and the token "k" on the
\* second server has a GET /poll of its loop and its POST /deregister
\* outstanding, and no server has got a public key.
C33_Witness ==
  /\ client[Unit].correlationID = <<"a">>
  /\ client[Unit].secretKey = <<"b">>
  /\ client[Unit].token = "k"
  /\ client[Unit].serverURLString.host = "oast.fun"
  /\ client[Unit].loopsInFlight = 1
  /\ calls[Unit].kind = "close"
  /\ moduli = {}

\* C34: loadOrGenerateRSAKeys throws nothing; with a row that deserializes it
\* returns true and the keypair in memory is the one of the row; with no row
\* or a row that does not deserialize it returns false; and in every case the
\* row the table holds afterwards deserializes to the keypair in memory.
C34_KeypairInMemoryIsPersisted ==
  [][ LoadOrGenerateRSAKeys =>
        /\ out'.err = ""
        /\ (rsaKeys \in RSAKeys =>
              /\ out'.ret = 1
              /\ KeyPairOf(keyPair') = importRSAKeyPair(KeyData(rsaKeys).serialized).keyPair)
        /\ (rsaKeys \notin RSAKeys => out'.ret = 0)
        /\ rsaKeys' # 0
        /\ ~KeyData(rsaKeys').err
        /\ importRSAKeyPair(KeyData(rsaKeys').serialized).keyPair = KeyPairOf(keyPair')
    ]_vars

\* The table held a row whose last field is no number and the second keypair
\* was in memory: the call has returned false, has logged the failure, and
\* the row is now the export of the second keypair.
C34_Witness ==
  /\ out.ret = 0
  /\ out.logged = {"Failed to load RSA keys"}
  /\ keyPair = 2
  /\ rsaKeys = 2

\* C35: no uniqueId is made twice in the life of one process, clearAllData
\* and interactions of the same millisecond included.
C35_UniqueIdsNeverRepeat == issued.again = {}

\* C36: every character of a string generateRandomString has returned is
\* selected by as many of the 256 byte values as every other character of
\* its alphabet, over the 36 characters and over the 26 letters.
C36_CharactersEquallyLikely ==
  out.ret # << >> =>
    \A lettersOnly \in BOOLEAN :
      \A i \in 1..Len(out.ret), j \in 1..Len(characters(lettersOnly)) :
        (\E b \in ByteValues : randomString(<<b>>, lettersOnly) = <<out.ret[i]>>) =>
          Cardinality({b \in ByteValues :
                         randomString(<<b>>, lettersOnly) = <<out.ret[i]>>})
            = Cardinality({b \in ByteValues :
                             randomString(<<b>>, lettersOnly)
                               = <<characters(lettersOnly)[j]>>})

\* C37: while the manager is not started its map of clients is empty and no
\* client it has created has a polling loop, one that sleeps or one that
\* awaits /poll.
C37_NotStartedMeansNoClientNoLoop ==
  ~isStarted =>
    /\ clients = << >>
    /\ \A c \in 1..created :
          client[c].loopsInFlight = 0 /\ client[c].loopsSleeping = 0

\* C38: a generateUrl that fails changes nothing of the manager. The step
\* that throws because the manager is not started, the step that sends POST
\* /register, and the step in which the failed registration is thrown to the
\* caller leave the map, the registry and data.json as they were, start and
\* end no polling loop and send no event; the first creates no client
\* either, and the last throws the error of the registration.
C38_FailedGenerateUrlChangesNothing ==
  [][ /\ \A s \in Servers :
           (GenerateUrl(s, "", <<"a">>, <<"a">>) /\ out'.ret # 1) =>
             /\ clients' = clients
             /\ activeUrls' = activeUrls
             /\ persisted' = persisted
             /\ out'.events = << >>
             /\ \A d \in ClientIds :
                   /\ client'[d].loopsInFlight = client[d].loopsInFlight
                   /\ client'[d].loopsSleeping = client[d].loopsSleeping
             /\ ~isStarted =>
                   /\ out'.err = "Interactsh store not started"
                   /\ UNCHANGED << client, created, calls >>
      /\ \A c \in ClientIds :
           (RegisterResponse(c, 500, <<"a">>) /\ calls[c].kind = "gen") =>
             /\ out'.err = "Registration failed, please check your server URL and token"
             /\ clients' = clients
             /\ activeUrls' = activeUrls
             /\ persisted' = persisted
             /\ out'.events = << >>
             /\ \A d \in ClientIds :
                   /\ client'[d].loopsInFlight = client[d].loopsInFlight
                   /\ client'[d].loopsSleeping = client[d].loopsSleeping
    ]_vars

\* The registration of a generateUrl has just failed in a started manager
\* that holds a client of another call in its map, and the registry is empty.
C38_Witness ==
  /\ out.err = "Registration failed, please check your server URL and token"
  /\ isStarted
  /\ Len(clients) = 1
  /\ activeUrls = << >>

\* C39: the GET /poll and the POST /deregister of a client go to the server
\* it was created for with the correlation id and the secret drawn for it:
\* the step of generateUrl that creates a client gives it requests made of
\* the server URL asked for, the credentials drawn in that call and the
\* token of the options, and as long as the client exists no step, of this
\* client or of another, changes either request.
C39_CredentialsStayWithTheirClient ==
  [][ /\ \A s \in Servers, cid \in generateRandomString(1) :
           (GenerateUrl(s, "", cid, <<"a">>) /\ created' # created) =>
             /\ PollRequest(client'[created']) =
                  [ url |-> buildUrl(s, <<"/poll?id=", cid, "&secret=", cid>>),
                    Authorization |-> currentOptions.token ]
             /\ DeregisterRequest(client'[created']) =
                  [ url  |-> buildUrl(s, <<"/deregister">>),
                    body |-> [correlationID |-> cid, secretKey |-> cid],
                    Authorization |-> currentOptions.token ]
      /\ \A c \in ClientIds :
           (client[c].correlationID # << >> /\ client'[c].correlationID # << >>) =>
             /\ PollRequest(client'[c]) = PollRequest(client[c])
             /\ DeregisterRequest(client'[c]) = DeregisterRequest(client[c])
    ]_vars

\* Two clients with different credentials on different servers, one of which
\* has a GET /poll in flight while the other is Closed.
C39_Witness ==
  /\ client[1].correlationID # client[2].correlationID
  /\ client[1].correlationID # << >>
  /\ client[2].correlationID # << >>
  /\ client[1].serverURLString # client[2].serverURLString
  /\ client[1].loopsInFlight > 0
  /\ client[2].state = "Closed"

====
